---- MODULE Spec2Model ----
(***************************************************************************)
(* Verification model of the calibration-environment repository:          *)
(*   - the orchestrator run() of calibration_environment/run.py,          *)
(*   - the retry policy of calibration_environment/retry.py,              *)
(*   - the gas mixer driver drivers/gas_mixer.py,                         *)
(*   - the water bath serial protocol drivers/water_bath/serial.py.       *)
(* Units: values exchanged with the bath are in hundredths, flow rates   *)
(* in milli-SLPM, gas fractions in thousandths, time in seconds.          *)
(***************************************************************************)
EXTENDS Integers, Sequences, FiniteSets, TLC

VARIABLES
    \* ---- run() of run.py
    pc,                            \* position of run()
    calibration_configuration,     \* the CalibrationConfiguration of this run
    i,                             \* index of the current setpoint row
    CALIBRATION_STATE,             \* run.py CALIBRATION_STATE
    sequence_iteration_count,      \* run.py sequence_iteration_count
    write_headers_to_file,         \* run.py write_headers_to_file
    now,                           \* wall clock, seconds
    setpoint_equilibration_start,  \* run.py setpoint_equilibration_start
    csv,                           \* rows appended to the output csv
    calls,                         \* hardware commands issued by run(), in order
    phases,                        \* what run() did for the current setpoint, in order
    pending,                       \* exception in flight inside run()
    outcome,                       \* how run() ended
    \* ---- gas mixer driver calls made through retry_on_exception, and _shut_down
    entry,                         \* the function under execution
    m_args,                        \* arguments of start_constant_flow_mix_with_retry
    m_pc,                          \* position inside the wrapped driver call
    tries,                         \* calls of the wrapped function made so far
    sent,                          \* commands written to the mixer in this attempt
    received,                      \* replies read from the mixer in this attempt
    raised,                        \* exception raised by the wrapped function in this attempt
    m_outcome,                     \* how the wrapped call ended
    sd_pc,                         \* position of _shut_down
    sd_events,                     \* what _shut_down did, in order
    sd_outcome,                    \* how _shut_down ended
    \* ---- water bath: send_command_and_parse_response of water_bath/serial.py
    b_pc,                          \* position inside send_command_and_parse_response
    b_command,                     \* its arguments command_name and data
    command_packet,                \* bytes of the command packet
    b_sends,                       \* times the command was written to the port
    response_bytes,                \* bytes read from the port
    response_packet,               \* the SerialPacket parsed from them
    b_outcome,                     \* how the call ended
    reparsed,                      \* from_bytes of the bytes to_bytes gave for response_packet
    \* ---- _wait_for_equilibration of equilibrate.py, collect_data_to_csv of data_logging.py
    w_pc,                          \* position inside _wait_for_equilibration
    w_args,                        \* its arguments
    sensor_data_log,               \* equilibrate.py sensor_data_log
    clock,                         \* datetime.now(), seconds
    csv_file,                      \* lines of the output csv file
    w_result,                      \* what _is_field_equilibrated returned last
    \* ---- check_status of status.py
    st_pc,                         \* the check that runs next, or the end of check_status
    st_called,                     \* the check functions called so far, and what each raised
    exceptions,                    \* status.py exceptions: the failures gathered so far
    st_outcome,                    \* how check_status ended
    \* ---- poll_data_to_csv of sensors.py and the thread that started it
    p_pc,                          \* position of the polling thread
    p_write_headers_to_file,       \* sensors.py write_headers_to_file
    serial_lock,                   \* the thread that holds serial_lock, or "free"
    setpoint_queue,                \* setpoints put and not yet taken
    end_data_collection_signal,    \* threading.Event: set or not
    c_pc,                          \* position of the control thread
    c_port                         \* the port the control thread talks to

runVars == <<pc, calibration_configuration, i, CALIBRATION_STATE,
             sequence_iteration_count, write_headers_to_file, now,
             setpoint_equilibration_start, csv, calls, phases, pending, outcome>>

bathVars == <<b_pc, b_command, command_packet, b_sends, response_bytes,
              response_packet, b_outcome, reparsed>>

eqVars == <<w_pc, w_args, sensor_data_log, clock, csv_file, w_result>>

mixVars == <<entry, m_args, m_pc, tries, sent, received, raised, m_outcome>>

sdVars == <<sd_pc, sd_events, sd_outcome>>

\* the variables of the drivers and of run(), and the others
driverVars == <<runVars, mixVars, sdVars, bathVars>>

statusVars == <<st_pc, st_called, exceptions, st_outcome>>

pollVars == <<p_pc, p_write_headers_to_file, serial_lock, setpoint_queue,
              end_data_collection_signal, c_pc, c_port>>

laterVars == <<statusVars, pollVars>>

restVars == <<eqVars, laterVars>>

vars == <<runVars, mixVars, sdVars, bathVars, restVars>>

----------------------------------------------------------------------------
(* Bounds of the model *)
MaxSetpoints == 2      \* rows in the setpoint sequence file
MaxRows == 4           \* data rows written before the model stops the run
MaxPasses == 2         \* passes over the sequence when loop is set
MaxWaitTime == 1       \* largest --wait-time
MaxInterval == 2       \* largest --collection-interval
MaxSamples == 4        \* samples taken in the equilibration waits before the model stops them
MaxQueued == 2         \* setpoints the control thread puts ahead of the polling thread

----------------------------------------------------------------------------
(* Values *)
NoException == [kind |-> "none", raised_by |-> "none"]

Exceptions == {"Exception", "KeyboardInterrupt"}

Raised(kind, step) == [kind |-> kind, raised_by |-> step]

\* exceptions of the drivers: the kind, the driver and the attempt that raised it
NoDriverException == [kind |-> "none", source |-> "none", attempt |-> 0]

DriverException(kind, source, attempt) ==
    [kind |-> kind, source |-> source, attempt |-> attempt]

\* no SerialPacket
NoPacket ==
    [ prefix |-> 0, device_address_msb |-> 0, device_address_lsb |-> 0,
      command |-> 0, data_bytes_count |-> 0, data_bytes |-> <<>>, checksum |-> 0 ]

\* _wait_for_equilibration not called
EqIdle ==
    /\ w_pc = "idle"
    /\ w_args = [ caller |-> "none", equilibration_status |-> "equilibrated",
                  field_name |-> "none", max_variation |-> 0,
                  min_stable_time |-> 0, loop_count |-> 0 ]
    /\ sensor_data_log = <<>>
    /\ clock = 0
    /\ csv_file = <<>>
    /\ w_result = "none"

\* check_status not called
StatusIdle ==
    /\ st_pc = "idle"
    /\ st_called = <<>>
    /\ exceptions = <<>>
    /\ st_outcome = [ended |-> "running", kind |-> "none", exceptions |-> <<>>]

\* no polling thread
PollIdle ==
    /\ p_pc = "idle"
    /\ p_write_headers_to_file = TRUE
    /\ serial_lock = "free"
    /\ setpoint_queue = 0
    /\ end_data_collection_signal = FALSE
    /\ c_pc = "idle"
    /\ c_port = "none"

LaterIdle == StatusIdle /\ PollIdle

RestIdle == EqIdle /\ LaterIdle

\* from_bytes not called
NotParsed == [raises |-> "not called", packet |-> NoPacket]

\* the water bath driver at rest
BathIdle ==
    /\ reparsed = NotParsed
    /\ b_pc = "idle"
    /\ b_command = [command_name |-> "Read Internal Temperature", data |-> <<>>]
    /\ command_packet = <<>>
    /\ b_sends = 0
    /\ response_bytes = <<>>
    /\ response_packet = NoPacket
    /\ b_outcome = [ended |-> "running", exception |-> "none", value |-> 0, side |-> 0]

\* rows of a setpoint sequence file (temperature C, flow milli-SLPM, O2 thousandths)
SetpointRows ==
    { [temperature |-> 15, flow_rate_slpm |-> 2500, o2_target_gas_fraction |-> 210],
      [temperature |-> 25, flow_rate_slpm |-> 2500, o2_target_gas_fraction |-> 105] }

SetpointSequences ==
    UNION { [1..n -> SetpointRows] : n \in 1..MaxSetpoints }

\* prepare.py CalibrationConfiguration, the fields run() reads
Configurations ==
    [ setpoints : SetpointSequences,
      o2_source_gas_fraction : {210},
      loop : BOOLEAN,
      collection_interval : 1..MaxInterval,
      setpoint_wait_time : 0..MaxWaitTime ]

setpoint == calibration_configuration.setpoints[i]

----------------------------------------------------------------------------
(* run(): every step that calls out can raise; the exception leaves the try  *)
(* block and reaches the finally clause.                                     *)
RunRaises(step) ==
    /\ \E e \in Exceptions : pending' = Raised(e, step)
    /\ pc' = "finally"

\* run.py line 131: water_bath.initialize, then lines 133-134
Initialize ==
    /\ pc = "initialize"
    /\ calls' = Append(calls, "initialize")
    /\ \/ /\ pc' = "set_setpoint"
          /\ sequence_iteration_count' = 0
          /\ write_headers_to_file' = TRUE
          /\ i' = 1
          /\ UNCHANGED pending
       \/ /\ RunRaises("initialize")
          /\ UNCHANGED <<sequence_iteration_count, write_headers_to_file, i>>
    /\ UNCHANGED <<calibration_configuration, CALIBRATION_STATE, now,
                   setpoint_equilibration_start, csv, phases, outcome>>
    /\ UNCHANGED <<mixVars, sdVars, bathVars, restVars>>

\* run.py lines 140-146: the Set Setpoint command, then the state is reset
SetSetpoint ==
    /\ pc = "set_setpoint"
    /\ calls' = Append(calls, "Set Setpoint")
    /\ \/ /\ CALIBRATION_STATE' = "WAIT_FOR_TEMPERATURE_EQ"
          /\ phases' = <<"Set Setpoint">>
          /\ pc' = "loop"
          /\ UNCHANGED pending
       \/ /\ RunRaises("Set Setpoint")
          /\ UNCHANGED <<CALIBRATION_STATE, phases>>
    /\ UNCHANGED <<calibration_configuration, i, sequence_iteration_count,
                   write_headers_to_file, now, setpoint_equilibration_start,
                   csv, outcome>>
    /\ UNCHANGED <<mixVars, sdVars, bathVars, restVars>>

\* the temperature check with its result ignored: the mix is started at once
CheckTemperatureIgnoringResult ==
    /\ pc = "loop"
    /\ CALIBRATION_STATE = "WAIT_FOR_TEMPERATURE_EQ"
    /\ pc' = "start_mix"
    /\ UNCHANGED <<calibration_configuration, i, CALIBRATION_STATE,
                   sequence_iteration_count, write_headers_to_file, now,
                   setpoint_equilibration_start, csv, calls, phases, pending,
                   outcome>>
    /\ UNCHANGED <<mixVars, sdVars, bathVars, restVars>>

\* run.py lines 149-153: the temperature equilibration check of one loop turn
CheckTemperature ==
    /\ pc = "loop"
    /\ CALIBRATION_STATE = "WAIT_FOR_TEMPERATURE_EQ"
    /\ \/ \E temperature_equilibrated \in BOOLEAN :
             /\ IF temperature_equilibrated
                   THEN /\ phases' = Append(phases, "temperature equilibrated")
                        /\ pc' = "start_mix"
                   ELSE /\ pc' = "sleep"
                        /\ UNCHANGED phases
             /\ UNCHANGED pending
       \/ /\ RunRaises("check_temperature_equilibrated")
          /\ UNCHANGED phases
    /\ UNCHANGED <<calibration_configuration, i, CALIBRATION_STATE,
                   sequence_iteration_count, write_headers_to_file, now,
                   setpoint_equilibration_start, csv, calls, outcome>>
    /\ UNCHANGED <<mixVars, sdVars, bathVars, restVars>>

\* run.py lines 155-161: start the gas mix, then wait for the gas mixer
StartGasMix ==
    /\ pc = "start_mix"
    /\ calls' = Append(calls, "start_constant_flow_mix")
    /\ \/ /\ CALIBRATION_STATE' = "WAIT_FOR_GAS_MIXER_EQ"
          /\ phases' = Append(phases, "start gas mix")
          /\ pc' = "sleep"
          /\ UNCHANGED pending
       \/ /\ RunRaises("start_constant_flow_mix")
          /\ UNCHANGED <<CALIBRATION_STATE, phases>>
    /\ UNCHANGED <<calibration_configuration, i, sequence_iteration_count,
                   write_headers_to_file, now, setpoint_equilibration_start,
                   csv, outcome>>
    /\ UNCHANGED <<mixVars, sdVars, bathVars, restVars>>

\* run.py lines 163-173: the gas mixer equilibration check of one loop turn
CheckGasMixer ==
    /\ pc = "loop"
    /\ CALIBRATION_STATE = "WAIT_FOR_GAS_MIXER_EQ"
    /\ \/ \E gas_mixer_equilibrated \in BOOLEAN :
             /\ IF gas_mixer_equilibrated
                   THEN /\ phases' = Append(Append(phases, "gas equilibrated"), "hold")
                        /\ setpoint_equilibration_start' = now
                        /\ CALIBRATION_STATE' = "WAIT_FOR_SETPOINT_TIMEOUT"
                   ELSE UNCHANGED <<phases, setpoint_equilibration_start,
                                    CALIBRATION_STATE>>
             /\ pc' = "sleep"
             /\ UNCHANGED pending
       \/ /\ RunRaises("check_gas_mixer_equilibrated")
          /\ UNCHANGED <<phases, setpoint_equilibration_start, CALIBRATION_STATE>>
    /\ UNCHANGED <<calibration_configuration, i, sequence_iteration_count,
                   write_headers_to_file, now, csv, calls, outcome>>
    /\ UNCHANGED <<mixVars, sdVars, bathVars, restVars>>

\* the hold without the test of the loop flag: after the last row the sequence
\* is always started again
CheckTimeoutWithoutLoopTest ==
    /\ pc = "loop"
    /\ CALIBRATION_STATE = "WAIT_FOR_SETPOINT_TIMEOUT"
    /\ IF now - setpoint_equilibration_start > calibration_configuration.setpoint_wait_time
          THEN IF i < Len(calibration_configuration.setpoints)
                  THEN /\ i' = i + 1
                       /\ pc' = "set_setpoint"
                       /\ UNCHANGED sequence_iteration_count
                  ELSE /\ sequence_iteration_count' = sequence_iteration_count + 1
                       /\ sequence_iteration_count' < MaxPasses
                       /\ i' = 1
                       /\ pc' = "set_setpoint"
          ELSE /\ pc' = "sleep"
               /\ UNCHANGED <<i, sequence_iteration_count>>
    /\ UNCHANGED <<calibration_configuration, CALIBRATION_STATE,
                   write_headers_to_file, now, setpoint_equilibration_start,
                   csv, calls, phases, pending, outcome>>
    /\ UNCHANGED <<mixVars, sdVars, bathVars, restVars>>

\* run.py lines 175-185 and 204-208: the hold; on timeout leave the inner loop,
\* take the next row, or end the pass
CheckTimeout ==
    /\ pc = "loop"
    /\ CALIBRATION_STATE = "WAIT_FOR_SETPOINT_TIMEOUT"
    /\ IF now - setpoint_equilibration_start > calibration_configuration.setpoint_wait_time
          THEN IF i < Len(calibration_configuration.setpoints)
                  THEN /\ i' = i + 1
                       /\ pc' = "set_setpoint"
                       /\ UNCHANGED sequence_iteration_count
                  ELSE /\ sequence_iteration_count' = sequence_iteration_count + 1
                       /\ IF calibration_configuration.loop
                             THEN /\ sequence_iteration_count' < MaxPasses
                                  /\ i' = 1
                                  /\ pc' = "set_setpoint"
                             ELSE /\ pc' = "finally"
                                  /\ UNCHANGED i
          ELSE /\ pc' = "sleep"
               /\ UNCHANGED <<i, sequence_iteration_count>>
    /\ UNCHANGED <<calibration_configuration, CALIBRATION_STATE,
                   write_headers_to_file, now, setpoint_equilibration_start,
                   csv, calls, phases, pending, outcome>>
    /\ UNCHANGED <<mixVars, sdVars, bathVars, restVars>>

\* run.py line 192: time.sleep(collection_interval); Ctrl-C can arrive here
Sleep ==
    /\ pc = "sleep"
    /\ Len(csv) < MaxRows
    /\ \/ /\ now' = now + calibration_configuration.collection_interval
          /\ pc' = "collect"
          /\ UNCHANGED pending
       \/ /\ pending' = Raised("KeyboardInterrupt", "sleep")
          /\ pc' = "finally"
          /\ UNCHANGED now
    /\ UNCHANGED <<calibration_configuration, i, CALIBRATION_STATE,
                   sequence_iteration_count, write_headers_to_file,
                   setpoint_equilibration_start, csv, calls, phases, outcome>>
    /\ UNCHANGED <<mixVars, sdVars, bathVars, restVars>>

\* the row written without the pass counter handed over: the column keeps the
\* default of the parameter, 0
CollectDataWithDefaultIteration ==
    /\ pc = "collect"
    /\ \/ /\ csv' = Append(csv, [ header |-> write_headers_to_file,
                                  iteration |-> 0,
                                  setpoint |-> i,
                                  equilibration_state |-> CALIBRATION_STATE ])
          /\ write_headers_to_file' = FALSE
          /\ pc' = "loop"
          /\ UNCHANGED pending
       \/ /\ RunRaises("collect_data_to_csv")
          /\ UNCHANGED <<csv, write_headers_to_file>>
    /\ UNCHANGED <<calibration_configuration, i, CALIBRATION_STATE,
                   sequence_iteration_count, now, setpoint_equilibration_start,
                   calls, phases, outcome>>
    /\ UNCHANGED <<mixVars, sdVars, bathVars, restVars>>

\* run.py lines 193-202 and 49-108: one row appended to the csv
CollectData ==
    /\ pc = "collect"
    /\ \/ /\ csv' = Append(csv, [ header |-> write_headers_to_file,
                                  iteration |-> sequence_iteration_count,
                                  setpoint |-> i,
                                  equilibration_state |-> CALIBRATION_STATE ])
          /\ write_headers_to_file' = FALSE
          /\ pc' = "loop"
          /\ UNCHANGED pending
       \/ /\ RunRaises("collect_data_to_csv")
          /\ UNCHANGED <<csv, write_headers_to_file>>
    /\ UNCHANGED <<calibration_configuration, i, CALIBRATION_STATE,
                   sequence_iteration_count, now, setpoint_equilibration_start,
                   calls, phases, outcome>>
    /\ UNCHANGED <<mixVars, sdVars, bathVars, restVars>>

\* run.py lines 209-213: the finally clause; its body is "pass", the two
\* shutdown calls are commented out. The exception in flight, if any, goes on.
Finally ==
    /\ pc = "finally"
    /\ pc' = "done"
    /\ outcome' = IF pending = NoException
                     THEN [ended |-> "returned", exception |-> NoException]
                     ELSE [ended |-> "raised", exception |-> pending]
    /\ UNCHANGED <<calibration_configuration, i, CALIBRATION_STATE,
                   sequence_iteration_count, write_headers_to_file, now,
                   setpoint_equilibration_start, csv, calls, phases, pending>>
    /\ UNCHANGED <<mixVars, sdVars, bathVars, restVars>>

RunInit ==
    /\ pc = "initialize"
    /\ calibration_configuration \in Configurations
    /\ i = 1
    /\ CALIBRATION_STATE = "WAIT_FOR_TEMPERATURE_EQ"
    /\ sequence_iteration_count = 0
    /\ write_headers_to_file = TRUE
    /\ now = 0
    /\ setpoint_equilibration_start = 0
    /\ csv = <<>>
    /\ calls = <<>>
    /\ phases = <<>>
    /\ pending = NoException
    /\ outcome = [ended |-> "running", exception |-> NoException]

\* the driver calls and _shut_down at rest
MixIdle ==
    /\ entry = "run"
    /\ m_args = [setpoint_flow_rate_slpm |-> 0, setpoint_o2_fraction |-> 0,
                 o2_source_gas_o2_fraction |-> 1000]
    /\ m_pc = "idle"
    /\ tries = 0
    /\ sent = <<>>
    /\ received = <<>>
    /\ raised = NoDriverException
    /\ m_outcome = [ended |-> "running", exception |-> NoDriverException]
    /\ sd_pc = "idle"
    /\ sd_events = <<>>
    /\ sd_outcome = [ended |-> "running", exception |-> NoDriverException]

InitRun == RunInit /\ MixIdle /\ BathIdle /\ RestIdle

NextRun ==
    \/ Initialize
    \/ SetSetpoint
    \/ CheckTemperature
    \/ StartGasMix
    \/ CheckGasMixer
    \/ CheckTimeout
    \/ Sleep
    \/ CollectData
    \/ Finally

SpecRun == InitRun /\ [][NextRun]_vars

\* run() is one sequential program: it takes its next step as long as it has one
FairSpecRun == SpecRun /\ WF_vars(NextRun)

----------------------------------------------------------------------------
(* retry.py *)
max_tries == 10

\* retry.py lines 31-41, backoff.on_exception(backoff.constant, expected_exception,
\* max_tries=10): the wrapped function has been called n times and its last call
\* raised `exception`. An exception of another kind escapes at once; an expected
\* one escapes when the n-th call was the max_tries-th, and is retried otherwise.
retry_on_exception(expected_exception, exception, n) ==
    IF exception.kind \in expected_exception /\ n # max_tries
       THEN "retry"
       ELSE "raise"

----------------------------------------------------------------------------
(* drivers/gas_mixer.py *)
_N2_MAX_FLOW == 10000              \* 10 SLPM, in milli-SLPM
_O2_SOURCE_GAS_MAX_FLOW == 2500    \* 2.5 SLPM, in milli-SLPM
MIN_FLOW_RATE_FRACTION == 2        \* 0.02, in hundredths
_ONE_BILLION == 1000000000
_FLOW_UNIT_CODE_SLPM == 7
_MIXER_MODE_CODE_CONSTANT_FLOW == 3

\* _MixControllerStateCode
emergency_motion_off == 0
stopped_configuration_error == 1
mixing == 2
stopped_ok == 3
stopped_error_silent == 4
stopped_error == 5
_MixControllerStateCode == 0..5

\* _MixControllerRunStateRequestCode
clear_alarms_and_start_mixing == 1
stop_flow == 2

\* arguments of start_constant_flow_mix_with_retry: flow in milli-SLPM, the two
\* O2 fractions in thousandths
FlowRates == {0, 100, 300, 620, 2500, 4904}
TargetFractions == {0, 70, 105, 140, 210, 500}
SourceFractions == {210, 1000}

MixArguments ==
    [ setpoint_flow_rate_slpm : FlowRates,
      setpoint_o2_fraction : TargetFractions,
      o2_source_gas_o2_fraction : SourceFractions ]

\* f"{setpoint_flow_rate_slpm:.2f}": the flow in hundredths of SLPM, the nearest
\* one (no member of FlowRates lies halfway between two)
FormatFlow(flow_milli) == (flow_milli + 5) \div 10

\* gas_mixer.py 210-212: int(fraction * _ONE_BILLION) for the fraction num / den,
\* 0 <= num <= den: the product truncated to an integer
_fraction_to_ppb(num, den) ==
    num * (_ONE_BILLION \div den) + (num * (_ONE_BILLION % den)) \div den

\* gas_mixer.py 215-220
_complimentary_ppb_value(ppb_value) == _ONE_BILLION - ppb_value

\* each of the two values converted from its own fraction
_source_gas_flow_rates_ppb_converted_individually(o2_source_gas_o2_fraction, setpoint_o2_fraction) ==
    [ n2_ppb |-> _fraction_to_ppb(o2_source_gas_o2_fraction - setpoint_o2_fraction,
                                  o2_source_gas_o2_fraction),
      o2_source_gas_ppb |-> _fraction_to_ppb(setpoint_o2_fraction,
                                             o2_source_gas_o2_fraction) ]

\* gas_mixer.py 425-440
_get_source_gas_flow_rates_ppb(o2_source_gas_o2_fraction, setpoint_o2_fraction) ==
    LET o2_source_gas_ppb ==
            _fraction_to_ppb(setpoint_o2_fraction, o2_source_gas_o2_fraction)
    IN  [ n2_ppb |-> _complimentary_ppb_value(o2_source_gas_ppb),
          o2_source_gas_ppb |-> o2_source_gas_ppb ]

\* The flows of gas_mixer.py 394-397 are IEEE 754 doubles:
\*     o2_source_gas_flow_rate = total * setpoint / source
\*     n2_source_gas_flow_rate = total - o2_source_gas_flow_rate
\* A double is kept here as its exact value together with the side on which the
\* computed double lies of the double nearest that exact value (-1 below, 0 on
\* it, 1 above). The two tables hold that side for the members of MixArguments,
\* as the two expressions evaluate in double arithmetic; a member listed in
\* neither set of a table evaluates to the nearest double.
o2_source_gas_flow_rate_rounding(total_flow_rate_slpm, o2_source_gas_o2_fraction, setpoint_o2_fraction) ==
    LET arguments ==
            <<total_flow_rate_slpm, o2_source_gas_o2_fraction, setpoint_o2_fraction>>
    IN  IF arguments \in { <<620, 210, 105>>, <<620, 210, 210>>, <<620, 1000, 105>>,
                           <<620, 1000, 210>>, <<4904, 1000, 105>>,
                           <<4904, 1000, 210>> }
           THEN 0 - 1
        ELSE IF arguments \in { <<100, 210, 70>>, <<100, 210, 500>>, <<100, 1000, 70>>,
                                <<620, 210, 70>>, <<2500, 210, 70>>, <<2500, 1000, 70>>,
                                <<4904, 210, 70>>, <<4904, 1000, 70>>,
                                <<100, 210, 140>>, <<100, 1000, 140>>, <<620, 210, 140>>,
                                <<2500, 210, 140>>, <<2500, 1000, 140>>,
                                <<4904, 210, 140>>, <<4904, 1000, 140>> }
           THEN 1
        ELSE 0

n2_source_gas_flow_rate_rounding(total_flow_rate_slpm, o2_source_gas_o2_fraction, setpoint_o2_fraction) ==
    LET arguments ==
            <<total_flow_rate_slpm, o2_source_gas_o2_fraction, setpoint_o2_fraction>>
    IN  IF arguments \in { <<300, 210, 70>>, <<300, 1000, 70>>, <<300, 1000, 105>>,
                           <<620, 210, 500>>, <<2500, 210, 70>>, <<4904, 210, 70>>,
                           <<100, 210, 140>>, <<300, 210, 140>>, <<620, 210, 140>>,
                           <<2500, 210, 140>>, <<4904, 210, 140>> }
           THEN 0 - 1
        ELSE IF arguments \in { <<100, 1000, 105>>, <<620, 210, 105>>,
                                <<620, 210, 210>>, <<4904, 210, 500>>,
                                <<100, 1000, 140>> }
           THEN 1
        ELSE 0

\* comparisons of a double (exact value, side) with a constant that is the
\* double nearest its own exact value (2.5, 10, 2.5 * 0.02, 10 * 0.02, 0)
DoubleGreater(exact, side, constant) ==
    exact > constant \/ (exact = constant /\ side > 0)

DoubleLess(exact, side, constant) ==
    exact < constant \/ (exact = constant /\ side < 0)

DoubleNonZero(exact, side) == exact # 0 \/ side # 0

\* gas_mixer.py 381-422. The exact values are the flows multiplied out by the
\* source fraction, and by 100 for the 2% thresholds.
get_mix_validation_errors(total_flow_rate_slpm, o2_source_gas_o2_fraction, setpoint_o2_fraction) ==
    LET o2_times_source == total_flow_rate_slpm * setpoint_o2_fraction
        n2_times_source ==
            total_flow_rate_slpm * o2_source_gas_o2_fraction - o2_times_source
        o2_side == o2_source_gas_flow_rate_rounding(
                       total_flow_rate_slpm, o2_source_gas_o2_fraction,
                       setpoint_o2_fraction)
        n2_side == n2_source_gas_flow_rate_rounding(
                       total_flow_rate_slpm, o2_source_gas_o2_fraction,
                       setpoint_o2_fraction)
        present ==
            [ error \in { "setpoint gas O2 fraction too high",
                          "O2 flow rate > max",
                          "O2 flow rate < 2% of full scale",
                          "N2 flow rate > max",
                          "N2 flow rate < 2% of full scale" } |->
                CASE error = "setpoint gas O2 fraction too high" ->
                        setpoint_o2_fraction > o2_source_gas_o2_fraction
                  [] error = "O2 flow rate > max" ->
                        DoubleGreater(o2_times_source, o2_side,
                            _O2_SOURCE_GAS_MAX_FLOW * o2_source_gas_o2_fraction)
                  [] error = "O2 flow rate < 2% of full scale" ->
                        /\ DoubleLess(100 * o2_times_source, o2_side,
                               _O2_SOURCE_GAS_MAX_FLOW * MIN_FLOW_RATE_FRACTION
                                   * o2_source_gas_o2_fraction)
                        /\ DoubleNonZero(o2_times_source, o2_side)
                  [] error = "N2 flow rate > max" ->
                        DoubleGreater(n2_times_source, n2_side,
                            _N2_MAX_FLOW * o2_source_gas_o2_fraction)
                  [] error = "N2 flow rate < 2% of full scale" ->
                        /\ DoubleLess(100 * n2_times_source, n2_side,
                               _N2_MAX_FLOW * MIN_FLOW_RATE_FRACTION
                                   * o2_source_gas_o2_fraction)
                        /\ DoubleNonZero(n2_times_source, n2_side) ]
    IN  { error \in DOMAIN present : present[error] }

\* A command is its mnemonic and numeric arguments; a response text is the
\* sequence of the numbers that follow the device id "A".
Command(mnemonic, values) == [mnemonic |-> mnemonic, values |-> values]

\* the same list with the flow rate set before the fraction
commands_flow_rate_first(args) ==
    LET ppb == _get_source_gas_flow_rates_ppb(args.o2_source_gas_o2_fraction,
                                              args.setpoint_o2_fraction)
        flow == FormatFlow(args.setpoint_flow_rate_slpm)
    IN  << [ command |-> Command("MXRM", <<_MIXER_MODE_CODE_CONSTANT_FLOW>>),
             expected |-> <<_MIXER_MODE_CODE_CONSTANT_FLOW>> ],
           [ command |-> Command("MXRFF", <<flow>>),
             expected |-> <<flow, _FLOW_UNIT_CODE_SLPM>> ],
           [ command |-> Command("MXMF", <<ppb.n2_ppb, ppb.o2_source_gas_ppb>>),
             expected |-> <<ppb.n2_ppb, ppb.o2_source_gas_ppb>> ],
           [ command |-> Command("MXRS", <<clear_alarms_and_start_mixing>>),
             expected |-> <<mixing>> ] >>

\* gas_mixer.py 516-541
commands_and_expected_responses(args) ==
    LET ppb == _get_source_gas_flow_rates_ppb(args.o2_source_gas_o2_fraction,
                                              args.setpoint_o2_fraction)
        flow == FormatFlow(args.setpoint_flow_rate_slpm)
    IN  << [ command |-> Command("MXRM", <<_MIXER_MODE_CODE_CONSTANT_FLOW>>),
             expected |-> <<_MIXER_MODE_CODE_CONSTANT_FLOW>> ],
           [ command |-> Command("MXMF", <<ppb.n2_ppb, ppb.o2_source_gas_ppb>>),
             expected |-> <<ppb.n2_ppb, ppb.o2_source_gas_ppb>> ],
           [ command |-> Command("MXRFF", <<flow>>),
             expected |-> <<flow, _FLOW_UNIT_CODE_SLPM>> ],
           [ command |-> Command("MXRS", <<clear_alarms_and_start_mixing>>),
             expected |-> <<mixing>> ] >>

\* the stop request sent with the start code
stop_flow_command_with_start_code ==
    Command("MXRS", <<clear_alarms_and_start_mixing>>)

\* gas_mixer.py 457
stop_flow_command == Command("MXRS", <<stop_flow>>)

\* gas_mixer.py 461-467: any type of "stopped" is OK
stopped_codes ==
    {stopped_ok, stopped_error, stopped_configuration_error, stopped_error_silent}

\* What the serial port gives back for one command: the port cannot be opened
\* (serial.SerialException, nothing is written), or the command is written and
\* bytes are read, with or without the terminating carriage return.
PortError == [error |-> TRUE, terminated |-> FALSE, text |-> <<>>]
Reply(text) == [error |-> FALSE, terminated |-> TRUE, text |-> text]
Unterminated == [error |-> FALSE, terminated |-> FALSE, text |-> <<>>]

SequenceReplies(expected) ==
    {PortError, Unterminated, Reply(expected), Reply(<<0 - 1>>)}

StopReplies ==
    {PortError, Unterminated, Reply(<<>>), Reply(<<9>>)}
        \cup { Reply(<<code>>) : code \in _MixControllerStateCode }

\* gas_mixer.py 167-196
send_serial_command_str_and_parse_response(reply) ==
    IF reply.error THEN "SerialException"
    ELSE IF ~reply.terminated THEN "UnexpectedMixerResponse"
    ELSE "ok"

\* gas_mixer.py 148-164: re.match(r"A (\d)") on the response, the digit turned
\* into a _MixControllerStateCode, the code looked up in expected_codes
_assert_mixer_state(actual_response, expected_codes) ==
    IF Len(actual_response) = 0 THEN "AttributeError"
    ELSE IF actual_response[1] \notin _MixControllerStateCode THEN "ValueError"
    ELSE IF actual_response[1] \notin expected_codes THEN "UnexpectedMixerResponse"
    ELSE "ok"

\* the comparison left out: every response passes
accept_any_response(response, expected_response) == "ok"

\* gas_mixer.py 299-302
check_response(response, expected_response) ==
    IF response # expected_response THEN "UnexpectedMixerResponse" ELSE "ok"

\* every exception is retried
expected_exception_any ==
    {"UnexpectedMixerResponse", "ValueError", "AttributeError", "SerialException"}

\* gas_mixer.py 471 and 546-548: retry_on_exception(UnexpectedMixerResponse)
expected_exception == {"UnexpectedMixerResponse"}

\* The wrapped function raised: the wrapper retries it after a backoff or lets
\* the exception escape (retry.py 31-41).
WrappedRaises(kind) ==
    LET exception == DriverException(kind, "gas_mixer", tries') IN
    /\ raised' = exception
    /\ IF retry_on_exception(expected_exception, exception, tries') = "retry"
          THEN /\ m_pc' = "backoff"
               /\ UNCHANGED m_outcome
          ELSE /\ m_pc' = "done"
               /\ m_outcome' = [ended |-> "raised", exception |-> exception]

WrappedReturns ==
    /\ m_pc' = "done"
    /\ m_outcome' = [ended |-> "returned", exception |-> NoDriverException]
    /\ UNCHANGED raised

\* the retried call taking the sequence up again at the command that failed
\* instead of at the mode command
CallWrappedResumingSequence ==
    /\ m_pc = "call"
    /\ tries' = tries + 1
    /\ sent' = IF sent = <<>> THEN <<>> ELSE SubSeq(sent, 1, Len(sent) - 1)
    /\ received' = IF received = <<>> THEN <<>>
                   ELSE SubSeq(received, 1, Len(received) - 1)
    /\ IF entry = "start_constant_flow_mix_with_retry"
             /\ m_args.setpoint_flow_rate_slpm # 0
          THEN IF get_mix_validation_errors(m_args.setpoint_flow_rate_slpm,
                                            m_args.o2_source_gas_o2_fraction,
                                            m_args.setpoint_o2_fraction) # {}
                  THEN WrappedRaises("ValueError")
                  ELSE /\ m_pc' = "sequence"
                       /\ raised' = NoDriverException
                       /\ UNCHANGED m_outcome
          ELSE /\ m_pc' = "stop_flow"
               /\ raised' = NoDriverException
               /\ UNCHANGED m_outcome
    /\ UNCHANGED <<entry, m_args, sdVars, runVars, bathVars, restVars>>

\* The wrapper calls the wrapped function. _start_constant_flow_mix, gas_mixer.py
\* 498-514: a zero flow goes to _stop_flow; an invalid mix raises ValueError
\* before anything is sent.
CallWrapped ==
    /\ m_pc = "call"
    /\ tries' = tries + 1
    /\ sent' = <<>>
    /\ received' = <<>>
    /\ IF entry = "start_constant_flow_mix_with_retry"
             /\ m_args.setpoint_flow_rate_slpm # 0
          THEN IF get_mix_validation_errors(m_args.setpoint_flow_rate_slpm,
                                            m_args.o2_source_gas_o2_fraction,
                                            m_args.setpoint_o2_fraction) # {}
                  THEN WrappedRaises("ValueError")
                  ELSE /\ m_pc' = "sequence"
                       /\ raised' = NoDriverException
                       /\ UNCHANGED m_outcome
          ELSE /\ m_pc' = "stop_flow"
               /\ raised' = NoDriverException
               /\ UNCHANGED m_outcome
    /\ UNCHANGED <<entry, m_args, sdVars, runVars, bathVars, restVars>>

\* gas_mixer.py 292-302: one turn of _send_sequence_with_expected_responses
SendSequenceStep ==
    /\ m_pc = "sequence"
    /\ LET step == commands_and_expected_responses(m_args)[Len(sent) + 1] IN
       \E reply \in SequenceReplies(step.expected) :
          LET transport == send_serial_command_str_and_parse_response(reply) IN
          /\ tries' = tries
          /\ IF reply.error
                THEN UNCHANGED <<sent, received>>
                ELSE /\ sent' = Append(sent, step.command)
                     /\ received' = Append(received, reply)
          /\ IF transport # "ok"
                THEN WrappedRaises(transport)
                ELSE IF check_response(reply.text, step.expected) # "ok"
                        THEN WrappedRaises(check_response(reply.text, step.expected))
                        ELSE IF Len(sent') = Len(commands_and_expected_responses(m_args))
                                THEN WrappedReturns
                                ELSE UNCHANGED <<m_pc, raised, m_outcome>>
    /\ UNCHANGED <<entry, m_args, sdVars, runVars, bathVars, restVars>>

\* gas_mixer.py 443-468: _stop_flow
StopFlow ==
    /\ m_pc = "stop_flow"
    /\ \E reply \in StopReplies :
          LET transport == send_serial_command_str_and_parse_response(reply) IN
          /\ tries' = tries
          /\ IF reply.error
                THEN UNCHANGED <<sent, received>>
                ELSE /\ sent' = Append(sent, stop_flow_command)
                     /\ received' = Append(received, reply)
          /\ IF transport # "ok"
                THEN WrappedRaises(transport)
                ELSE IF _assert_mixer_state(reply.text, stopped_codes) # "ok"
                        THEN WrappedRaises(_assert_mixer_state(reply.text, stopped_codes))
                        ELSE WrappedReturns
    /\ UNCHANGED <<entry, m_args, sdVars, runVars, bathVars, restVars>>

\* retry.py 32-38: the constant interval with jitter is slept, then the wrapped
\* function is called again
Backoff ==
    /\ m_pc = "backoff"
    /\ m_pc' = "call"
    /\ UNCHANGED <<entry, m_args, tries, sent, received, raised, m_outcome,
                   sdVars, runVars, bathVars, restVars>>

----------------------------------------------------------------------------
(* _shut_down(gas_mixer_com_port, water_bath_com_port) of run.py, as its tests *)
(* (run_test.py TestShutDown) and the specification describe it:              *)
(*     try:     gas_mixer.stop_flow_with_retry(gas_mixer_com_port)            *)
(*     finally: time.sleep(5)                                                 *)
(*              water_bath.send_settings_command_and_parse_response(          *)
(*                  water_bath_com_port, unit_on_off=False)                   *)
SETTLE_SECONDS == 5

Event(call, argument) == [call |-> call, argument |-> argument]

ShutDownStopFlow ==
    /\ sd_pc = "stop_flow"
    /\ m_pc = "idle"
    /\ sd_events' = Append(sd_events, Event("stop_flow_with_retry", 0))
    /\ m_pc' = "call"
    /\ sd_pc' = "stopping"
    /\ UNCHANGED <<entry, m_args, tries, sent, received, raised, m_outcome,
                   sd_outcome, runVars, bathVars, restVars>>

\* the finally clause is entered however stop_flow_with_retry ended
ShutDownSettle ==
    /\ sd_pc = "stopping"
    /\ m_pc = "done"
    /\ sd_events' = Append(sd_events, Event("sleep", SETTLE_SECONDS))
    /\ sd_pc' = "power_off"
    /\ UNCHANGED <<mixVars, sd_outcome, runVars, bathVars, restVars>>

\* the power-off command; the bath driver can raise (settings.py 112-115,
\* serial.py 265-283), and an exception raised inside a finally clause is the
\* one that leaves it
ShutDownPowerOff ==
    /\ sd_pc = "power_off"
    /\ sd_events' = Append(sd_events, Event("unit_on_off", 0))
    /\ sd_pc' = "done"
    /\ \E bath \in {"ok", "InvalidResponse", "ErrorResponse", "SerialException"} :
          sd_outcome' =
              IF bath # "ok"
                 THEN [ended |-> "raised",
                       exception |-> DriverException(bath, "water_bath", 1)]
                 ELSE m_outcome
    /\ UNCHANGED <<mixVars, runVars, bathVars, restVars>>

\* run() at rest while a driver function is exercised on its own
RunIdle ==
    /\ pc = "idle"
    /\ calibration_configuration =
           [ setpoints |-> <<>>, o2_source_gas_fraction |-> 210, loop |-> FALSE,
             collection_interval |-> 1, setpoint_wait_time |-> 0 ]
    /\ i = 1
    /\ CALIBRATION_STATE = "WAIT_FOR_TEMPERATURE_EQ"
    /\ sequence_iteration_count = 0
    /\ write_headers_to_file = TRUE
    /\ now = 0
    /\ setpoint_equilibration_start = 0
    /\ csv = <<>>
    /\ calls = <<>>
    /\ phases = <<>>
    /\ pending = NoException
    /\ outcome = [ended |-> "running", exception |-> NoException]

\* a call of start_constant_flow_mix_with_retry, of stop_flow_with_retry, or of
\* _shut_down
InitMixer ==
    /\ RunIdle
    /\ RestIdle
    /\ BathIdle
    /\ entry \in {"start_constant_flow_mix_with_retry", "stop_flow_with_retry",
                  "_shut_down"}
    /\ m_args \in MixArguments
    /\ entry # "start_constant_flow_mix_with_retry" =>
           m_args = [setpoint_flow_rate_slpm |-> 0, setpoint_o2_fraction |-> 0,
                     o2_source_gas_o2_fraction |-> 1000]
    /\ m_pc = IF entry = "_shut_down" THEN "idle" ELSE "call"
    /\ tries = 0
    /\ sent = <<>>
    /\ received = <<>>
    /\ raised = NoDriverException
    /\ m_outcome = [ended |-> "running", exception |-> NoDriverException]
    /\ sd_pc = IF entry = "_shut_down" THEN "stop_flow" ELSE "idle"
    /\ sd_events = <<>>
    /\ sd_outcome = [ended |-> "running", exception |-> NoDriverException]

NextMixer ==
    \/ CallWrapped
    \/ SendSequenceStep
    \/ StopFlow
    \/ Backoff
    \/ ShutDownStopFlow
    \/ ShutDownSettle
    \/ ShutDownPowerOff

SpecMixer == InitMixer /\ [][NextMixer]_vars

----------------------------------------------------------------------------
(* drivers/water_bath/constants.py *)
REPORTING_PRECISION == 1           \* 0.01, in hundredths
DEFAULT_PREFIX == 202              \* 0xCA
DEFAULT_DEVICE_ADDRESS_MSB == 0
DEFAULT_DEVICE_ADDRESS_LSB == 1
ERROR_RESPONSE_COMMAND == 15       \* 0x0F

\* 0x20, 0x70 and 0xF0; the other entries of the table differ only in the byte
COMMAND_NAME_TO_HEX ==
    [ command_name \in {"Read Internal Temperature", "Read Setpoint", "Set Setpoint"} |->
        CASE command_name = "Read Internal Temperature" -> 32
          [] command_name = "Read Setpoint" -> 112
          [] command_name = "Set Setpoint" -> 240 ]

\* 0x10 and 0x11 give 0.1, 0x20 and 0x21 give 0.01 (in hundredths)
_QUALIFIER_HEX_TO_PRECISION == (16 :> 10) @@ (32 :> 1) @@ (17 :> 10) @@ (33 :> 1)

(* drivers/water_bath/serial.py *)
RECURSIVE Sum(_)
Sum(bytes) == IF bytes = <<>> THEN 0 ELSE Head(bytes) + Sum(Tail(bytes))

\* serial.py 181-198: (sum & 0xFF) ^ 0xFF
_calculate_checksum(message_bytes) == 255 - (Sum(message_bytes) % 256)

\* serial.py 148-158
_message_bytes(packet) ==
    << packet.device_address_msb, packet.device_address_lsb, packet.command,
       packet.data_bytes_count >> \o packet.data_bytes

\* serial.py 145-146
to_bytes(packet) == <<packet.prefix>> \o _message_bytes(packet) \o <<packet.checksum>>

\* the checks of the count and of the checksum left out
validate_framing_only(packet) ==
    { check \in {"prefix", "addr msb", "addr lsb"} :
        CASE check = "prefix" -> packet.prefix # DEFAULT_PREFIX
          [] check = "addr msb" -> packet.device_address_msb # DEFAULT_DEVICE_ADDRESS_MSB
          [] check = "addr lsb" -> packet.device_address_lsb # DEFAULT_DEVICE_ADDRESS_LSB }

\* serial.py 160-178: the checks that fail; the constructor raises ValueError
\* when there is one
validate(packet) ==
    { check \in {"prefix", "addr msb", "addr lsb", "data bytes count", "checksum"} :
        CASE check = "prefix" -> packet.prefix # DEFAULT_PREFIX
          [] check = "addr msb" -> packet.device_address_msb # DEFAULT_DEVICE_ADDRESS_MSB
          [] check = "addr lsb" -> packet.device_address_lsb # DEFAULT_DEVICE_ADDRESS_LSB
          [] check = "data bytes count" ->
                 packet.data_bytes_count # Len(packet.data_bytes)
          [] check = "checksum" ->
                 packet.checksum # _calculate_checksum(_message_bytes(packet)) }

\* serial.py 115-129: indexing a byte string shorter than five bytes raises
\* IndexError; packet_bytes[5:-1] are the data bytes, packet_bytes[-1] the checksum
from_bytes(packet_bytes) ==
    IF Len(packet_bytes) < 5
       THEN [raises |-> "IndexError", packet |-> NoPacket]
       ELSE LET packet ==
                    [ prefix |-> packet_bytes[1],
                      device_address_msb |-> packet_bytes[2],
                      device_address_lsb |-> packet_bytes[3],
                      command |-> packet_bytes[4],
                      data_bytes_count |-> packet_bytes[5],
                      data_bytes |-> SubSeq(packet_bytes, 6, Len(packet_bytes) - 1),
                      checksum |-> packet_bytes[Len(packet_bytes)] ]
            IN  IF validate(packet) # {}
                   THEN [raises |-> "ValueError", packet |-> NoPacket]
                   ELSE [raises |-> "none", packet |-> packet]

\* serial.py 131-143 and 75-98: the checksum is computed from the message bytes
from_command(command, data_bytes) ==
    LET fields ==
            [ prefix |-> DEFAULT_PREFIX,
              device_address_msb |-> DEFAULT_DEVICE_ADDRESS_MSB,
              device_address_lsb |-> DEFAULT_DEVICE_ADDRESS_LSB,
              command |-> command,
              data_bytes_count |-> Len(data_bytes),
              data_bytes |-> data_bytes,
              checksum |-> 0 ]
    IN  [fields EXCEPT !.checksum = _calculate_checksum(_message_bytes(fields))]

\* the two data bytes in the other order
_construct_command_packet_little_endian(command_name, data) ==
    from_command(COMMAND_NAME_TO_HEX[command_name],
                 IF data = <<>> THEN <<>>
                 ELSE <<data[1] % 256, data[1] \div 256>>)

\* serial.py 288-307: a Set command's data, already in hundredths, as two
\* big-endian bytes; a Read command has none
_construct_command_packet(command_name, data) ==
    from_command(COMMAND_NAME_TO_HEX[command_name],
                 IF data = <<>> THEN <<>>
                 ELSE <<data[1] \div 256, data[1] % 256>>)

\* serial.py 237: int.from_bytes(...) * precision is a product of doubles. The
\* side on which it lies of the double nearest the exact product, for the
\* counts of BathValues: 1004 * 0.01 evaluates to 10.040000000000001, the
\* others to the nearest double.
product_rounding(count, precision) ==
    IF <<count, precision>> \in { <<1004, 1>> } THEN 1 ELSE 0

\* serial.py 213-237
_parse_data_bytes_as_float(qualified_data_bytes, expected_precision) ==
    IF qualified_data_bytes = <<>>
       THEN [raises |-> "IndexError", value |-> 0, side |-> 0]
    ELSE IF qualified_data_bytes[1] \notin DOMAIN _QUALIFIER_HEX_TO_PRECISION
       THEN [raises |-> "KeyError", value |-> 0, side |-> 0]
    ELSE IF _QUALIFIER_HEX_TO_PRECISION[qualified_data_bytes[1]] # expected_precision
       THEN [raises |-> "PrecisionMismatch", value |-> 0, side |-> 0]
    ELSE LET data_bytes == Tail(qualified_data_bytes)
             precision == _QUALIFIER_HEX_TO_PRECISION[qualified_data_bytes[1]]
             from_bytes_big[k \in 0..Len(data_bytes)] ==
                 IF k = 0 THEN 0 ELSE 256 * from_bytes_big[k - 1] + data_bytes[k]
         IN  [ raises |-> "none",
               value |-> from_bytes_big[Len(data_bytes)] * precision,
               side |-> product_rounding(from_bytes_big[Len(data_bytes)], precision) ]

\* serial.py 240-254
_check_for_error_response(serial_packet) ==
    IF serial_packet.command # ERROR_RESPONSE_COMMAND THEN "none"
    ELSE IF Len(serial_packet.data_bytes) < 2 THEN "IndexError"
    ELSE "ErrorResponse"

\* What the bath can answer. A well-formed answer echoes the command byte and
\* carries a qualifier and a two-byte value, or is an error packet.
BathValues == {0, 1004, 1500, 2550}

WellFormedResponses(command) ==
    { to_bytes(from_command(command, <<qualifier, value \div 256, value % 256>>)) :
          qualifier \in {17, 33}, value \in BathValues }
    \cup { to_bytes(from_command(ERROR_RESPONSE_COMMAND, <<error_type, command>>)) :
              error_type \in {1, 3} }

\* the ways the bytes of an answer arrive damaged
Damaged(bytes) ==
    { <<>>,
      SubSeq(bytes, 1, 4),
      SubSeq(bytes, 1, Len(bytes) - 1),
      [bytes EXCEPT ![1] = 204],
      [bytes EXCEPT ![3] = 2],
      [bytes EXCEPT ![5] = (bytes[5] + 1) % 256],
      [bytes EXCEPT ![Len(bytes)] = (bytes[Len(bytes)] + 1) % 256] }

BathResponses(command) ==
    WellFormedResponses(command)
        \cup UNION { Damaged(bytes) : bytes \in WellFormedResponses(command) }

\* a returned double: its exact value in hundredths and the side on which it lies
\* of the double nearest that value
BathReturns(value, side) ==
    [ended |-> "returned", exception |-> "none", value |-> value, side |-> side]

BathRaises(exception) ==
    [ended |-> "raised", exception |-> exception, value |-> 0, side |-> 0]

\* serial.py 325: command_packet = _construct_command_packet(command_name, data)
ConstructCommandPacket ==
    /\ b_pc = "construct"
    /\ command_packet' =
           to_bytes(_construct_command_packet(b_command.command_name, b_command.data))
    /\ b_pc' = "send"
    /\ UNCHANGED <<b_command, b_sends, response_bytes, response_packet, b_outcome,
                   reparsed, runVars, mixVars, sdVars, restVars>>

\* serial.py 265-271 and serial_port.py 40-46: the port is opened, the command
\* written and the answer read; opening can raise serial.SerialException
SerialExchange ==
    /\ b_pc = "send"
    /\ \/ /\ b_pc' = "done"
          /\ b_outcome' = BathRaises("SerialException")
          /\ UNCHANGED <<b_sends, response_bytes>>
       \/ \E bytes \in BathResponses(COMMAND_NAME_TO_HEX[b_command.command_name]) :
             /\ b_sends' = b_sends + 1
             /\ response_bytes' = bytes
             /\ b_pc' = "parse"
             /\ UNCHANGED b_outcome
    /\ UNCHANGED <<b_command, command_packet, response_packet, reparsed, runVars, mixVars,
                   sdVars, restVars>>

\* serial.py 273-285: whatever from_bytes raises becomes InvalidResponse, which
\* leaves send_command; so does the ErrorResponse of an error packet
ParseResponse ==
    /\ b_pc = "parse"
    /\ LET parsed == from_bytes(response_bytes) IN
       IF parsed.raises # "none"
          THEN /\ b_pc' = "done"
               /\ b_outcome' = BathRaises("InvalidResponse")
               /\ UNCHANGED response_packet
          ELSE /\ response_packet' = parsed.packet
               /\ IF _check_for_error_response(parsed.packet) # "none"
                     THEN /\ b_pc' = "done"
                          /\ b_outcome' =
                                 BathRaises(_check_for_error_response(parsed.packet))
                     ELSE /\ b_pc' = "decode"
                          /\ UNCHANGED b_outcome
    /\ UNCHANGED <<b_command, command_packet, b_sends, response_bytes, reparsed, runVars,
                   mixVars, sdVars, restVars>>

\* serial.py 328
ParseData ==
    /\ b_pc = "decode"
    /\ LET data == _parse_data_bytes_as_float(response_packet.data_bytes,
                                              REPORTING_PRECISION)
       IN  b_outcome' = IF data.raises # "none"
                           THEN BathRaises(data.raises)
                           ELSE BathReturns(data.value, data.side)
    /\ b_pc' = "done"
    /\ UNCHANGED <<b_command, command_packet, b_sends, response_bytes,
                   response_packet, reparsed, runVars, mixVars, sdVars, restVars>>

\* one call of send_command_and_parse_response
InitBath ==
    /\ RunIdle
    /\ RestIdle
    /\ reparsed = NotParsed
    /\ MixIdle
    /\ b_pc = "construct"
    /\ b_command \in
           { [command_name |-> "Read Internal Temperature", data |-> <<>>],
             [command_name |-> "Read Setpoint", data |-> <<>>] }
           \cup { [command_name |-> "Set Setpoint", data |-> <<value>>] :
                      value \in BathValues }
    /\ command_packet = <<>>
    /\ b_sends = 0
    /\ response_bytes = <<>>
    /\ response_packet = NoPacket
    /\ b_outcome = [ended |-> "running", exception |-> "none", value |-> 0, side |-> 0]

NextBath ==
    \/ ConstructCommandPacket
    \/ SerialExchange
    \/ ParseResponse
    \/ ParseData

SpecBath == InitBath /\ [][NextBath]_vars

----------------------------------------------------------------------------
(* SerialPacket on its own: a packet is built from bytes or from a command,  *)
(* turned into bytes, and those bytes are parsed again.                      *)

\* command bytes met on the wire: Read Acknowledge, Read Status, Read Internal
\* Temperature, Set Setpoint, and 0xFE
WireCommands == {0, 9, 32, 240, 254}

\* byte strings handed to from_bytes: packets without data and with a qualified
\* value, whole and damaged
PacketByteStrings ==
    LET whole ==
            { to_bytes(from_command(command, <<>>)) : command \in WireCommands }
            \cup { to_bytes(from_command(command, <<33, value \div 256, value % 256>>)) :
                       command \in {32, 240}, value \in BathValues }
    IN  whole \cup UNION { Damaged(bytes) : bytes \in whole }

\* serial.py 115-129
PacketFromBytes ==
    /\ b_pc = "from_bytes"
    /\ LET parsed == from_bytes(response_bytes) IN
       IF parsed.raises # "none"
          THEN /\ b_pc' = "done"
               /\ b_outcome' = BathRaises(parsed.raises)
               /\ UNCHANGED response_packet
          ELSE /\ b_pc' = "to_bytes"
               /\ response_packet' = parsed.packet
               /\ UNCHANGED b_outcome
    /\ UNCHANGED <<b_command, command_packet, b_sends, response_bytes, reparsed,
                   runVars, mixVars, sdVars, restVars>>

\* serial.py 131-143 through _construct_command_packet (288-307)
PacketFromCommand ==
    /\ b_pc = "from_command"
    /\ response_packet' =
           _construct_command_packet(b_command.command_name, b_command.data)
    /\ b_pc' = "to_bytes"
    /\ UNCHANGED <<b_command, command_packet, b_sends, response_bytes, b_outcome,
                   reparsed, runVars, mixVars, sdVars, restVars>>

\* serial.py 145-146
PacketToBytes ==
    /\ b_pc = "to_bytes"
    /\ command_packet' = to_bytes(response_packet)
    /\ b_pc' = "reparse"
    /\ UNCHANGED <<b_command, b_sends, response_bytes, response_packet, b_outcome,
                   reparsed, runVars, mixVars, sdVars, restVars>>

\* serial.py 115-129 on the bytes of the packet
PacketReparse ==
    /\ b_pc = "reparse"
    /\ reparsed' = from_bytes(command_packet)
    /\ b_pc' = "done"
    /\ b_outcome' = BathReturns(0, 0)
    /\ UNCHANGED <<b_command, command_packet, b_sends, response_bytes,
                   response_packet, runVars, mixVars, sdVars, restVars>>

InitPacket ==
    /\ RunIdle
    /\ RestIdle
    /\ MixIdle
    /\ \/ /\ b_pc = "from_bytes"
          /\ response_bytes \in PacketByteStrings
          /\ b_command = [command_name |-> "Read Internal Temperature", data |-> <<>>]
       \/ /\ b_pc = "from_command"
          /\ response_bytes = <<>>
          /\ b_command \in
                 { [command_name |-> command_name, data |-> <<>>] :
                       command_name \in {"Read Internal Temperature", "Read Setpoint"} }
                 \cup { [command_name |-> "Set Setpoint", data |-> <<value>>] :
                            value \in BathValues }
    /\ command_packet = <<>>
    /\ b_sends = 0
    /\ response_packet = NoPacket
    /\ b_outcome = [ended |-> "running", exception |-> "none", value |-> 0, side |-> 0]
    /\ reparsed = NotParsed

NextPacket ==
    \/ PacketFromBytes
    \/ PacketFromCommand
    \/ PacketToBytes
    \/ PacketReparse

SpecPacket == InitPacket /\ [][NextPacket]_vars

----------------------------------------------------------------------------
(* equilibrate.py and data_logging.py. Sensor values are in millionths of    *)
(* their unit, times in seconds.                                             *)

\* EquilibrationStatus (data_logging.py 12-15)
EQUILIBRATED == "equilibrated"
TEMPERATURE == "waiting for temperature"
DO == "waiting for do"

_YSI_TEMPERATURE_FIELD_NAME == "YSI temperature (C)"
_YSI_DO_MMHG_FIELD_NAME == "YSI DO (mmHg)"
_TEMPERATURE_MAXIMUM_EQUILIBRATED_VARIATION == 100000     \* 0.1 degrees C
_DO_MAXIMUM_EQUILIBRATED_VARIATION_MMHG == 500000         \* 0.5 mmHg
SLEEP_SECONDS == 5

\* the minimum stable times handed to _is_field_equilibrated (the five minutes
\* of the two waits, scaled to the sleep between two samples)
MinStableTimes == {5, 10}

\* what the sensor read by a wait can report
SampleValues == {10000000, 10200000, 10300000, 10300004}

\* seconds that pass inside one collect_data_to_csv before the timestamp is taken
CollectionDelays == {0, 1}

SetMax(S) == CHOOSE x \in S : \A y \in S : y <= x

SetMin(S) == CHOOSE x \in S : \A y \in S : x <= y

\* the rounding left out
no_rounding(x) == x

\* round(x, 5) of a non-negative value in millionths that is not halfway
\* between two multiples of 0.00001 (the loss of the float subtraction is far
\* below that); the result is a multiple of ten millionths
round5(x) == ((x + 5) \div 10) * 10

\* equilibrate.py 24-61
_is_field_equilibrated(log, max_variation, min_stable_time) ==
    LET timestamps == { log[k].timestamp : k \in 1..Len(log) }
        oldest_timestamp == SetMin(timestamps)
        newest_timestamp == SetMax(timestamps)
        window_start_timestamp == newest_timestamp - min_stable_time
        data_window == { log[k].value : k \in { n \in 1..Len(log) :
                                log[n].timestamp >= window_start_timestamp } }
        variation == round5(SetMax(data_window) - SetMin(data_window))
    IN  IF newest_timestamp - oldest_timestamp < min_stable_time
           THEN FALSE
           ELSE variation <= max_variation

HeaderLine ==
    [ kind |-> "header", loop_count |-> 0, equilibration_status |-> "equilibration status",
      timestamp |-> 0, value |-> 0 ]

RowLine(row) ==
    [ kind |-> "row", loop_count |-> row.loop_count,
      equilibration_status |-> row.equilibration_status,
      timestamp |-> row.timestamp, value |-> row.value ]

\* the header line written with every row
write_row_with_header(file, row) == file \o <<HeaderLine, RowLine(row)>>

\* data_logging.py 43-57: the file is opened for appending and the header line
\* goes with the row when the file is empty
_write_row_to_csv(file, row) ==
    IF file = <<>>
       THEN <<HeaderLine, RowLine(row)>>
       ELSE Append(file, RowLine(row))

\* the arguments of the two callers of _wait_for_equilibration
\* (equilibrate.py 106-114 and 144-152)
WaitArguments ==
    { [ caller |-> "wait_for_temperature_equilibration",
        equilibration_status |-> TEMPERATURE,
        field_name |-> _YSI_TEMPERATURE_FIELD_NAME,
        max_variation |-> _TEMPERATURE_MAXIMUM_EQUILIBRATED_VARIATION,
        min_stable_time |-> min_stable_time,
        loop_count |-> loop_count ] :
          min_stable_time \in MinStableTimes, loop_count \in {0, 1} }
    \cup
    { [ caller |-> "wait_for_do_equilibration",
        equilibration_status |-> TEMPERATURE,
        field_name |-> _YSI_DO_MMHG_FIELD_NAME,
        max_variation |-> _DO_MAXIMUM_EQUILIBRATED_VARIATION_MMHG,
        min_stable_time |-> min_stable_time,
        loop_count |-> loop_count ] :
          min_stable_time \in MinStableTimes, loop_count \in {0, 1} }

\* equilibrate.py 76-82 with data_logging.py 60-99: the sensors are read, the
\* row is written to the csv file, and the row is appended to the log
CollectSample ==
    /\ w_pc = "collect"
    /\ Len(csv_file) <= MaxSamples
    /\ \E value \in SampleValues, delay \in CollectionDelays :
          LET current_sensor_data ==
                  [ loop_count |-> w_args.loop_count,
                    equilibration_status |-> w_args.equilibration_status,
                    timestamp |-> clock + delay,
                    value |-> value ]
          IN  /\ clock' = clock + delay
              /\ csv_file' = _write_row_to_csv(csv_file, current_sensor_data)
              /\ sensor_data_log' = Append(sensor_data_log, current_sensor_data)
    /\ w_pc' = "check"
    /\ UNCHANGED <<w_args, w_result, driverVars, laterVars>>

\* the check made on the newest sample alone
CheckEquilibratedOnNewestSample ==
    /\ w_pc = "check"
    /\ LET equilibrated ==
               _is_field_equilibrated(<<sensor_data_log[Len(sensor_data_log)]>>,
                                      w_args.max_variation, w_args.min_stable_time)
       IN  /\ w_result' = IF equilibrated THEN "true" ELSE "false"
           /\ w_pc' = IF equilibrated THEN "returned" ELSE "sleep"
    /\ UNCHANGED <<w_args, sensor_data_log, clock, csv_file, driverVars, laterVars>>

\* equilibrate.py 84-87
CheckEquilibrated ==
    /\ w_pc = "check"
    /\ LET equilibrated ==
               _is_field_equilibrated(sensor_data_log, w_args.max_variation,
                                      w_args.min_stable_time)
       IN  /\ w_result' = IF equilibrated THEN "true" ELSE "false"
           /\ w_pc' = IF equilibrated THEN "returned" ELSE "sleep"
    /\ UNCHANGED <<w_args, sensor_data_log, clock, csv_file, driverVars, laterVars>>

\* equilibrate.py 89
SleepBeforeNextSample ==
    /\ w_pc = "sleep"
    /\ clock' = clock + SLEEP_SECONDS
    /\ w_pc' = "collect"
    /\ UNCHANGED <<w_args, sensor_data_log, csv_file, w_result, driverVars, laterVars>>

\* the next wait going on with the log of the wait before it
StartNextWaitKeepingLog ==
    /\ w_pc = "returned"
    /\ w_args.caller = "wait_for_temperature_equilibration"
    /\ w_args' \in { a \in WaitArguments :
                        /\ a.caller = "wait_for_do_equilibration"
                        /\ a.min_stable_time = w_args.min_stable_time
                        /\ a.loop_count = w_args.loop_count }
    /\ w_result' = "none"
    /\ w_pc' = "collect"
    /\ UNCHANGED <<sensor_data_log, clock, csv_file, driverVars, laterVars>>

\* equilibrate.py 127-152 and 64-73: wait_for_do_equilibration called after
\* wait_for_temperature_equilibration has returned; the log of the new wait
\* starts empty, the csv file and the clock go on
StartNextWait ==
    /\ w_pc = "returned"
    /\ w_args.caller = "wait_for_temperature_equilibration"
    /\ w_args' \in { a \in WaitArguments :
                        /\ a.caller = "wait_for_do_equilibration"
                        /\ a.min_stable_time = w_args.min_stable_time
                        /\ a.loop_count = w_args.loop_count }
    /\ sensor_data_log' = <<>>
    /\ w_result' = "none"
    /\ w_pc' = "collect"
    /\ UNCHANGED <<clock, csv_file, driverVars, laterVars>>

\* the first call of _wait_for_equilibration; equilibrate.py 73: the log starts empty
InitEquilibrate ==
    /\ RunIdle
    /\ MixIdle
    /\ BathIdle
    /\ LaterIdle
    /\ w_pc = "collect"
    /\ w_args \in WaitArguments
    /\ sensor_data_log = <<>>
    /\ clock = 0
    /\ csv_file = <<>>
    /\ w_result = "none"

NextEquilibrate ==
    \/ CollectSample
    \/ CheckEquilibrated
    \/ SleepBeforeNextSample
    \/ StartNextWait

SpecEquilibrate == InitEquilibrate /\ [][NextEquilibrate]_vars

----------------------------------------------------------------------------
(* check_status of status.py *)

\* no except clause: whatever the check function raises propagates
_get_and_log_any_exceptions_without_except(title, raised_kind, expected_exceptions) ==
    [propagates |-> raised_kind, exceptions |-> <<>>]

\* status.py 18-27: the check function is called; an exception of one of the
\* expected kinds is logged and returned in a list, any other exception
\* propagates
_get_and_log_any_exceptions(title, raised_kind, expected_exceptions) ==
    IF raised_kind = "none"
       THEN [propagates |-> "none", exceptions |-> <<>>]
       ELSE IF raised_kind \in expected_exceptions
               THEN [ propagates |-> "none",
                      exceptions |-> <<[check |-> title, kind |-> raised_kind]>> ]
               ELSE [propagates |-> raised_kind, exceptions |-> <<>>]

\* status.py 46-75: the three checks in the order of the sum, each with the
\* exceptions it expects; raises lists what the check function can raise, the
\* expected kinds and one kind that is not expected (status_test.py 84-90)
StatusChecks ==
    << [ title |-> "Gas mixer",
         expected_exceptions |->
             {"SerialException", "UnexpectedMixerResponse", "GasMixerStatusError"},
         raises |-> {"SerialException", "UnexpectedMixerResponse",
                     "GasMixerStatusError", "RecursionError"} ],
       [ title |-> "Water bath",
         expected_exceptions |->
             {"SerialException", "InvalidResponse", "WaterBathStatusError"},
         raises |-> {"SerialException", "InvalidResponse", "WaterBathStatusError",
                     "ErrorResponse"} ],
       [ title |-> "YSI",
         expected_exceptions |-> {"SerialException", "InvalidYsiResponse"},
         raises |-> {"SerialException", "InvalidYsiResponse", "UnicodeDecodeError"} ] >>

\* one term of the sum of status.py 46-75
StatusCheck(n, next_pc) ==
    /\ st_pc = StatusChecks[n].title
    /\ \E raised_kind \in {"none"} \cup StatusChecks[n].raises :
          LET result == _get_and_log_any_exceptions(StatusChecks[n].title, raised_kind,
                                                    StatusChecks[n].expected_exceptions)
          IN  /\ st_called' = Append(st_called, [ check |-> StatusChecks[n].title,
                                                  kind |-> raised_kind ])
              /\ IF result.propagates # "none"
                    THEN /\ st_pc' = "done"
                         /\ st_outcome' = [ ended |-> "raised", kind |-> result.propagates,
                                            exceptions |-> <<>> ]
                         /\ UNCHANGED exceptions
                    ELSE /\ st_pc' = next_pc
                         /\ exceptions' = exceptions \o result.exceptions
                         /\ UNCHANGED st_outcome
    /\ UNCHANGED <<driverVars, eqVars, pollVars>>

GasMixerStatusCheck == StatusCheck(1, "Water bath")

WaterBathStatusCheck == StatusCheck(2, "YSI")

YsiStatusCheck == StatusCheck(3, "raise or return")

\* status.py 77-80
RaiseOrReturn ==
    /\ st_pc = "raise or return"
    /\ st_pc' = "done"
    /\ st_outcome' =
           IF exceptions # <<>>
              THEN [ ended |-> "raised", kind |-> "CalibrationSequenceAbort",
                     exceptions |-> exceptions ]
              ELSE [ended |-> "returned", kind |-> "none", exceptions |-> <<>>]
    /\ UNCHANGED <<st_called, exceptions, driverVars, eqVars, pollVars>>

\* one call of check_status
InitStatus ==
    /\ RunIdle
    /\ MixIdle
    /\ BathIdle
    /\ EqIdle
    /\ PollIdle
    /\ st_pc = "Gas mixer"
    /\ st_called = <<>>
    /\ exceptions = <<>>
    /\ st_outcome = [ended |-> "running", kind |-> "none", exceptions |-> <<>>]

NextStatus ==
    \/ GasMixerStatusCheck
    \/ WaterBathStatusCheck
    \/ YsiStatusCheck
    \/ RaiseOrReturn

SpecStatus == InitStatus /\ [][NextStatus]_vars

----------------------------------------------------------------------------
(* poll_data_to_csv and collect_data_to_csv of sensors.py, run by the polling  *)
(* thread, beside the control thread that shares serial_lock, the queues and  *)
(* end_data_collection_signal with it                                         *)

\* the ports the polling thread talks to at each position: get_all_sensor_data
\* (sensors.py 16-34) reads the gas mixer and the water bath,
\* check_temperature_equilibrated is handed the water bath driver and its port,
\* check_gas_mixer_equilibrated the gas mixer driver and its port (78-83)
PollerUses ==
    CASE p_pc = "sensor_data" -> {"gas_mixer", "water_bath"}
      [] p_pc = "check_temperature_equilibrated" -> {"water_bath"}
      [] p_pc = "check_gas_mixer_equilibrated" -> {"gas_mixer"}
      [] OTHER -> {}

ControlUses == IF c_pc = "serial" THEN {c_port} ELSE {}

\* sensors.py 107
PollerTestsSignalAtLoop ==
    /\ p_pc = "while"
    /\ p_pc' = IF end_data_collection_signal THEN "returned" ELSE "get"
    /\ UNCHANGED <<p_write_headers_to_file, serial_lock, setpoint_queue,
                   end_data_collection_signal, c_pc, c_port,
                   driverVars, eqVars, statusVars>>

\* sensors.py 111-114: the queues block until the control thread has put
PollerGetsSetpoint ==
    /\ p_pc = "get"
    /\ setpoint_queue > 0
    /\ setpoint_queue' = setpoint_queue - 1
    /\ p_pc' = "acquire"
    /\ UNCHANGED <<p_write_headers_to_file, serial_lock,
                   end_data_collection_signal, c_pc, c_port,
                   driverVars, eqVars, statusVars>>

\* sensors.py 66: with serial_lock, entered; the sensor read begins
PollerAcquiresLock ==
    /\ p_pc = "acquire"
    /\ serial_lock = "free"
    /\ serial_lock' = "poller"
    /\ p_pc' = "sensor_data"
    /\ UNCHANGED <<p_write_headers_to_file, setpoint_queue,
                   end_data_collection_signal, c_pc, c_port,
                   driverVars, eqVars, statusVars>>

\* sensors.py 67-80: the sensor read ends, the with block is left, and
\* check_temperature_equilibrated begins
PollerReleasesLock ==
    /\ p_pc = "sensor_data"
    /\ serial_lock' = "free"
    /\ p_pc' = "check_temperature_equilibrated"
    /\ UNCHANGED <<p_write_headers_to_file, setpoint_queue,
                   end_data_collection_signal, c_pc, c_port,
                   driverVars, eqVars, statusVars>>

\* sensors.py 78-83: check_temperature_equilibrated ends and
\* check_gas_mixer_equilibrated begins
PollerChecksGasMixer ==
    /\ p_pc = "check_temperature_equilibrated"
    /\ p_pc' = "check_gas_mixer_equilibrated"
    /\ UNCHANGED <<p_write_headers_to_file, serial_lock, setpoint_queue,
                   end_data_collection_signal, c_pc, c_port,
                   driverVars, eqVars, statusVars>>

\* sensors.py 81-94 and 117: check_gas_mixer_equilibrated ends, the row is
\* written, and the headers are not written again
PollerWritesRow ==
    /\ p_pc = "check_gas_mixer_equilibrated"
    /\ p_write_headers_to_file' = FALSE
    /\ p_pc' = "if"
    /\ UNCHANGED <<serial_lock, setpoint_queue, end_data_collection_signal,
                   c_pc, c_port, driverVars, eqVars, statusVars>>

\* sensors.py 119-120
PollerTestsSignalAfterRow ==
    /\ p_pc = "if"
    /\ p_pc' = IF end_data_collection_signal THEN "returned" ELSE "sleep"
    /\ UNCHANGED <<p_write_headers_to_file, serial_lock, setpoint_queue,
                   end_data_collection_signal, c_pc, c_port,
                   driverVars, eqVars, statusVars>>

\* sensors.py 122
PollerSleeps ==
    /\ p_pc = "sleep"
    /\ p_pc' = "while"
    /\ UNCHANGED <<p_write_headers_to_file, serial_lock, setpoint_queue,
                   end_data_collection_signal, c_pc, c_port,
                   driverVars, eqVars, statusVars>>

\* The control thread: it puts the setpoint it works on into the queues, talks
\* to the water bath and to the gas mixer inside "with serial_lock", and sets
\* end_data_collection_signal when the sequence is over.
ControlPutsSetpoint ==
    /\ c_pc = "working"
    /\ setpoint_queue < MaxQueued
    /\ setpoint_queue' = setpoint_queue + 1
    /\ UNCHANGED <<p_pc, p_write_headers_to_file, serial_lock,
                   end_data_collection_signal, c_pc, c_port,
                   driverVars, eqVars, statusVars>>

ControlAcquiresLock ==
    /\ c_pc = "working"
    /\ serial_lock = "free"
    /\ serial_lock' = "control"
    /\ c_pc' = "serial"
    /\ c_port' \in {"water_bath", "gas_mixer"}
    /\ UNCHANGED <<p_pc, p_write_headers_to_file, setpoint_queue,
                   end_data_collection_signal, driverVars, eqVars, statusVars>>

ControlReleasesLock ==
    /\ c_pc = "serial"
    /\ serial_lock' = "free"
    /\ c_pc' = "working"
    /\ c_port' = "none"
    /\ UNCHANGED <<p_pc, p_write_headers_to_file, setpoint_queue,
                   end_data_collection_signal, driverVars, eqVars, statusVars>>

ControlSetsSignal ==
    /\ c_pc = "working"
    /\ end_data_collection_signal' = TRUE
    /\ c_pc' = "ended"
    /\ UNCHANGED <<p_pc, p_write_headers_to_file, serial_lock, setpoint_queue,
                   c_port, driverVars, eqVars, statusVars>>

\* the polling thread has just been started
InitPoll ==
    /\ RunIdle
    /\ MixIdle
    /\ BathIdle
    /\ EqIdle
    /\ StatusIdle
    /\ p_pc = "while"
    /\ p_write_headers_to_file = TRUE
    /\ serial_lock = "free"
    /\ setpoint_queue = 0
    /\ end_data_collection_signal = FALSE
    /\ c_pc = "working"
    /\ c_port = "none"

NextPoll ==
    \/ PollerTestsSignalAtLoop
    \/ PollerGetsSetpoint
    \/ PollerAcquiresLock
    \/ PollerReleasesLock
    \/ PollerChecksGasMixer
    \/ PollerWritesRow
    \/ PollerTestsSignalAfterRow
    \/ PollerSleeps
    \/ ControlPutsSetpoint
    \/ ControlAcquiresLock
    \/ ControlReleasesLock
    \/ ControlSetsSignal

SpecPoll == InitPoll /\ [][NextPoll]_vars

----------------------------------------------------------------------------
(* Properties of run() *)
IsPrefix(s, t) == Len(s) <= Len(t) /\ \A k \in 1..Len(s) : s[k] = t[k]

Count(x, s) == Cardinality({ k \in 1..Len(s) : s[k] = x })

\* the hardware shutdown commands among the commands run() issued
ShutdownCalls == SelectSeq(calls, LAMBDA c : c \in {"stop_flow", "water bath off"})

SetpointOrder ==
    <<"Set Setpoint", "temperature equilibrated", "start gas mix",
      "gas equilibrated", "hold">>

\* C1: whenever run() has ended (returned or raised), the shutdown routine has
\* been executed exactly once: one gas mixer stop, then one water bath power-off.
C1_ShutdownExactlyOnce ==
    pc = "done" => ShutdownCalls = <<"stop_flow", "water bath off">>

\* C3: when a step of run() raised, run() ends by raising that same exception,
\* and the shutdown has been performed before it does.
C3_CauseReraisedAfterShutdown ==
    (pc = "done" /\ pending # NoException) =>
        /\ outcome = [ended |-> "raised", exception |-> pending]
        /\ Count("stop_flow", calls) >= 1
        /\ Count("water bath off", calls) >= 1

C5_NoTemperatureWaitWhenUnchanged ==
    (/\ pc = "loop"
     /\ i > 1
     /\ calibration_configuration.setpoints[i].temperature
            = calibration_configuration.setpoints[i - 1].temperature)
        => CALIBRATION_STATE # "WAIT_FOR_TEMPERATURE_EQ"

----------------------------------------------------------------------------
(* Properties of the gas mixer driver, of retry_on_exception and of _shut_down *)

ShutDownOrder ==
    << Event("stop_flow_with_retry", 0), Event("sleep", SETTLE_SECONDS),
       Event("unit_on_off", 0) >>

StartSequence == <<"MXRM", "MXMF", "MXRFF", "MXRS">>

Mnemonics(commands) == [k \in 1..Len(commands) |-> commands[k].mnemonic]

StartsMix ==
    /\ entry = "start_constant_flow_mix_with_retry"
    /\ m_args.setpoint_flow_rate_slpm # 0

\* C6: a call of start_constant_flow_mix with a nonzero flow sends MXRM 3, then
\* MXMF with the two ppb values, then MXRFF, then MXRS 1, in that order and
\* nothing else; when it returns it has sent exactly these four.
C6_FourCommandsInOrder ==
    StartsMix =>
        /\ IsPrefix(Mnemonics(sent), StartSequence)
        /\ (m_pc = "done" /\ m_outcome.ended = "returned") =>
              LET ppb == _get_source_gas_flow_rates_ppb(
                             m_args.o2_source_gas_o2_fraction,
                             m_args.setpoint_o2_fraction)
              IN  /\ Len(sent) = 4
                  /\ sent[1] = Command("MXRM", <<3>>)
                  /\ sent[2] = Command("MXMF", <<ppb.n2_ppb, ppb.o2_source_gas_ppb>>)
                  /\ sent[3].mnemonic = "MXRFF"
                  /\ sent[4] = Command("MXRS", <<1>>)

C6_Witness ==
    /\ StartsMix
    /\ m_pc = "done"
    /\ m_outcome.ended = "returned"
    /\ Len(sent) = 4
    /\ sent[2].values = <<500000000, 500000000>>

\* the last response read in this attempt differs from the expected one
LastResponseDiffers ==
    /\ Len(received) > 0
    /\ received[Len(received)].terminated
    /\ received[Len(received)].text
          # commands_and_expected_responses(m_args)[Len(received)].expected

\* C7: in the start sequence every response before the last one read equalled
\* its expected string, and once a response differs UnexpectedMixerResponse has
\* been raised by this attempt and the attempt sends no further command.
C7_FirstMismatchAborts ==
    StartsMix =>
        /\ \A k \in 1..Len(received) :
              k < Len(received) =>
                  received[k] = Reply(commands_and_expected_responses(m_args)[k].expected)
        /\ LastResponseDiffers =>
              /\ m_pc # "sequence"
              /\ raised = DriverException("UnexpectedMixerResponse", "gas_mixer", tries)

C7_Witness ==
    /\ StartsMix
    /\ Len(sent) = 2
    /\ LastResponseDiffers
    /\ m_pc = "backoff"

\* C8: when the expected exception leaves the wrapper, the wrapped function has
\* been called 11 times and the exception is the one its 11th call raised.
C8_EleventhExceptionPropagates ==
    ( /\ m_pc = "done"
      /\ m_outcome.ended = "raised"
      /\ m_outcome.exception.kind \in expected_exception ) =>
        /\ tries = 11
        /\ m_outcome.exception.attempt = 11

\* C9: start_constant_flow_mix_with_retry called with a nonzero flow and a mix
\* that get_mix_validation_errors rejects ends in ValueError after one call of
\* the wrapped function, with no command sent.
C9_ValidationErrorNotRetried ==
    ( /\ StartsMix
      /\ get_mix_validation_errors(m_args.setpoint_flow_rate_slpm,
                                   m_args.o2_source_gas_o2_fraction,
                                   m_args.setpoint_o2_fraction) # {}
      /\ tries > 0 ) =>
        /\ m_pc = "done"
        /\ m_outcome = [ended |-> "raised",
                        exception |-> DriverException("ValueError", "gas_mixer", 1)]
        /\ tries = 1
        /\ sent = <<>>

C9_Witness ==
    /\ StartsMix
    /\ "O2 flow rate > max"
           \in get_mix_validation_errors(m_args.setpoint_flow_rate_slpm,
                                         m_args.o2_source_gas_o2_fraction,
                                         m_args.setpoint_o2_fraction)
    /\ m_pc = "done"
    /\ m_outcome.exception.kind = "ValueError"
    /\ sent = <<>>

\* C11: the two values of every mix-fraction command sent add up to exactly one
\* billion: the second is the converted O2-source fraction target / source and
\* the first is one billion minus it.
C11_PpbSumToOneBillion ==
    \A k \in 1..Len(sent) :
        sent[k].mnemonic = "MXMF" =>
            /\ sent[k].values[1] + sent[k].values[2] = _ONE_BILLION
            /\ sent[k].values[2] = _fraction_to_ppb(m_args.setpoint_o2_fraction,
                                                    m_args.o2_source_gas_o2_fraction)
            /\ sent[k].values[1] = _ONE_BILLION - sent[k].values[2]

C11_Witness ==
    /\ Len(sent) >= 2
    /\ sent[2] = Command("MXMF", <<666666667, 333333333>>)

\* the constraints of a mix that are violated, in exact arithmetic, with
\* O2-source flow = total * target / source and N2 flow = total - O2-source flow
\* (every quantity multiplied out by the source fraction, and by 100 for the 2%
\* thresholds)
ViolatedConstraints(total, source, target) ==
    LET o2_flow == total * target
        n2_flow == total * source - total * target
    IN  (IF target > source THEN {"setpoint gas O2 fraction too high"} ELSE {})
        \cup (IF o2_flow > 2500 * source THEN {"O2 flow rate > max"} ELSE {})
        \cup (IF n2_flow > 10000 * source THEN {"N2 flow rate > max"} ELSE {})
        \cup (IF o2_flow # 0 /\ 100 * o2_flow < 2 * 2500 * source
                 THEN {"O2 flow rate < 2% of full scale"} ELSE {})
        \cup (IF n2_flow # 0 /\ 100 * n2_flow < 2 * 10000 * source
                 THEN {"N2 flow rate < 2% of full scale"} ELSE {})

\* C12: the errors get_mix_validation_errors returned for the mix of a call are
\* exactly its violated constraints; a flow exactly zero or exactly at its 2%
\* threshold is not among them.
C12_ExactlyTheViolatedConstraints ==
    (StartsMix /\ tries > 0) =>
        get_mix_validation_errors(m_args.setpoint_flow_rate_slpm,
                                  m_args.o2_source_gas_o2_fraction,
                                  m_args.setpoint_o2_fraction)
            = ViolatedConstraints(m_args.setpoint_flow_rate_slpm,
                                  m_args.o2_source_gas_o2_fraction,
                                  m_args.setpoint_o2_fraction)

----------------------------------------------------------------------------
(* Properties of the water bath driver *)

\* C10: a command answered with malformed bytes is written to the port again
\* before InvalidResponse reaches the caller of send_command_and_parse_response.
C10_InvalidResponseRetried ==
    (b_pc = "done" /\ b_outcome.exception = "InvalidResponse") => b_sends > 1

\* C13: a packet turned into bytes and parsed again is the same packet, and the
\* bytes a packet was parsed from are the bytes to_bytes gives for it.
C13_RoundTrip ==
    /\ b_pc = "done" /\ b_outcome.ended = "returned" =>
           reparsed = [raises |-> "none", packet |-> response_packet]
    /\ b_pc \in {"reparse", "done"} /\ response_packet # NoPacket /\ response_bytes # <<>> =>
           command_packet = response_bytes

\* the bath answered a Set command with the two data bytes of the command
\* behind the qualifier byte
EchoedBehind(qualifiers) ==
    /\ b_pc = "done"
    /\ b_command.data # <<>>
    /\ response_packet.command = COMMAND_NAME_TO_HEX[b_command.command_name]
    /\ Len(response_packet.data_bytes) = 3
    /\ response_packet.data_bytes[1] \in qualifiers
    /\ SubSeq(response_packet.data_bytes, 2, 3)
           = SubSeq(command_packet, 6, Len(command_packet) - 1)

----------------------------------------------------------------------------
(* Properties of equilibrate.py and data_logging.py *)

Timestamps == { sensor_data_log[k].timestamp : k \in 1..Len(sensor_data_log) }

\* the values of the samples no older than min_stable_time before the newest
WindowValues ==
    { sensor_data_log[k].value :
          k \in { n \in 1..Len(sensor_data_log) :
                      sensor_data_log[n].timestamp
                          >= SetMax(Timestamps) - w_args.min_stable_time } }

EnoughHistory == SetMax(Timestamps) - SetMin(Timestamps) >= w_args.min_stable_time

Checked == w_pc \in {"sleep", "returned"}

\* C15, as written: the check is true exactly when the log spans at least
\* min_stable_time and the values in the window differ by at most max_variation.
C15_TrueExactlyWhenWithinMaxVariation ==
    Checked =>
        ( w_result = "true" <=>
            /\ EnoughHistory
            /\ SetMax(WindowValues) - SetMin(WindowValues) <= w_args.max_variation )

\* C15, amended: the check is true exactly when the log spans at least
\* min_stable_time and the values in the window differ by less than
\* max_variation + 0.000005 (their difference rounded to five decimals is at
\* most max_variation); samples older than the window do not enter.
C15_TrueExactlyWhenStable ==
    Checked =>
        ( w_result = "true" <=>
            /\ EnoughHistory
            /\ SetMax(WindowValues) - SetMin(WindowValues) < w_args.max_variation + 5 )

\* the check returned true on a log whose oldest sample lies before the window
\* and differs from the newest by more than max_variation
C15_Witness ==
    /\ w_pc = "returned"
    /\ w_result = "true"
    /\ Len(sensor_data_log) >= 3
    /\ sensor_data_log[1].timestamp < SetMax(Timestamps) - w_args.min_stable_time
    /\ sensor_data_log[Len(sensor_data_log)].value - sensor_data_log[1].value
           > w_args.max_variation

HeaderLines(file) == { k \in 1..Len(file) : file[k].kind = "header" }

DataRows(file) == { k \in 1..Len(file) : file[k].kind = "row" }

\* C16: every data-collection call (a step that adds a sample to the log)
\* appends exactly one data row to the csv file, and after it the file holds
\* exactly one header line, which is its first line.
C16_HeaderOnceAndOneRowPerCall ==
    [][ Len(sensor_data_log') > Len(sensor_data_log) =>
            /\ Cardinality(DataRows(csv_file')) = Cardinality(DataRows(csv_file)) + 1
            /\ csv_file'[Len(csv_file')] = RowLine(sensor_data_log'[Len(sensor_data_log')])
            /\ IsPrefix(csv_file, csv_file')
            /\ HeaderLines(csv_file') = {1} ]_vars

\* three calls have written to the file
C16_Witness ==
    /\ Len(sensor_data_log) = 3
    /\ Cardinality(DataRows(csv_file)) = 3
    /\ csv_file[1] = HeaderLine

----------------------------------------------------------------------------
(* Properties of _stop_flow and stop_flow_with_retry *)

\* the controller answered the last stop command with one of the stopped codes
AnsweredStopped ==
    /\ received[Len(received)].terminated
    /\ \E code \in { stopped_configuration_error, stopped_ok,
                     stopped_error_silent, stopped_error } :
           received[Len(received)].text = <<code>>

\* C18: once the controller has answered a stop_flow call, MXRS 2 was sent, and
\* the call succeeded exactly when the answer is one of the stopped state codes;
\* for every other answer it raised UnexpectedMixerResponse, which the wrapper
\* retries as long as tries are left.
C18_StopFlowSucceedsOrRaisesUnexpectedMixerResponse ==
    ( /\ entry = "stop_flow_with_retry"
      /\ m_pc \in {"backoff", "done"}
      /\ received # <<>> ) =>
        /\ sent = <<Command("MXRS", <<2>>)>>
        /\ IF AnsweredStopped
              THEN /\ m_pc = "done"
                   /\ m_outcome.ended = "returned"
              ELSE /\ raised.kind = "UnexpectedMixerResponse"
                   /\ tries < max_tries => m_pc = "backoff"

----------------------------------------------------------------------------
(* Properties of check_status *)

ChecksInOrder == <<"Gas mixer", "Water bath", "YSI">>

\* the kinds each check is expected to fail with
ExpectedKinds(check) ==
    CASE check = "Gas mixer" ->
             {"SerialException", "UnexpectedMixerResponse", "GasMixerStatusError"}
      [] check = "Water bath" ->
             {"SerialException", "InvalidResponse", "WaterBathStatusError"}
      [] check = "YSI" -> {"SerialException", "InvalidYsiResponse"}

CheckFailed(call) == call.kind \in ExpectedKinds(call.check)

CheckBroke(call) == call.kind # "none" /\ ~CheckFailed(call)

\* C19: when check_status has ended, the checks were called in the order gas
\* mixer, water bath, YSI; if none raised an exception outside its expected
\* kinds, all three were called, and check_status raised CalibrationSequenceAbort
\* carrying every failure in that order when at least one failed and returned
\* when none failed; otherwise the first such exception came out of
\* check_status and no later check was called.
C19_EveryCheckRunsAndFailuresAreGathered ==
    st_pc = "done" =>
        /\ \A n \in 1..Len(st_called) : st_called[n].check = ChecksInOrder[n]
        /\ IF \E n \in 1..Len(st_called) : CheckBroke(st_called[n])
              THEN /\ CheckBroke(st_called[Len(st_called)])
                   /\ \A n \in 1..(Len(st_called) - 1) : ~CheckBroke(st_called[n])
                   /\ st_outcome = [ ended |-> "raised",
                                     kind |-> st_called[Len(st_called)].kind,
                                     exceptions |-> <<>> ]
              ELSE /\ Len(st_called) = 3
                   /\ IF \E n \in 1..3 : CheckFailed(st_called[n])
                         THEN st_outcome =
                                  [ ended |-> "raised",
                                    kind |-> "CalibrationSequenceAbort",
                                    exceptions |-> SelectSeq(st_called, CheckFailed) ]
                         ELSE st_outcome.ended = "returned"

\* the gas mixer check and the YSI check failed, the water bath check passed,
\* and CalibrationSequenceAbort carries the two failures
C19_Witness ==
    /\ st_pc = "done"
    /\ st_outcome.kind = "CalibrationSequenceAbort"
    /\ Len(st_outcome.exceptions) = 2
    /\ st_called[1].kind = "GasMixerStatusError"
    /\ st_called[2].kind = "none"
    /\ st_called[3].kind = "SerialException"

\* the water bath check raised an exception outside its expected kinds after
\* the gas mixer check had failed
C19_WitnessUnexpected ==
    /\ st_pc = "done"
    /\ Len(st_called) = 2
    /\ CheckFailed(st_called[1])
    /\ st_outcome.kind = "ErrorResponse"

----------------------------------------------------------------------------
(* Properties of the polling thread *)

\* C17: whenever the polling thread talks to a serial port while collecting a
\* row, it holds serial_lock, and the polling thread and the control thread
\* never talk to the same port at the same time.
C17_SerialAccessUnderLock ==
    /\ PollerUses # {} => serial_lock = "poller"
    /\ PollerUses \cap ControlUses = {}

----------------------------------------------------------------------------
(* Properties of the passes of run() over the setpoint sequence *)

SetSetpointCalls(c) == Count("Set Setpoint", c)

\* the model has stopped the run at its bound of rows: a wait is still going on
StoppedWaiting == pc = "sleep" /\ Len(csv) = MaxRows

\* C20: the k-th Set Setpoint of a pass is for row k of the file (so every row
\* is worked on once per pass, in file order, and with loop set the row after
\* the last one is the first one again); run() returns only with loop not set,
\* and then after one Set Setpoint per row; and with loop not set run() ends,
\* unless a wait lasts until the model stops it.
C20_EachSetpointOncePerPassInOrder ==
    /\ [][ SetSetpointCalls(calls') # SetSetpointCalls(calls) =>
               SetSetpointCalls(calls') =
                   sequence_iteration_count * Len(calibration_configuration.setpoints) + i
         ]_vars
    /\ [][ i' # i =>
               \/ i' = i + 1
               \/ /\ calibration_configuration.loop
                  /\ i = Len(calibration_configuration.setpoints)
                  /\ i' = 1 ]_vars
    /\ [](outcome.ended = "returned" =>
              /\ ~calibration_configuration.loop
              /\ sequence_iteration_count = 1
              /\ SetSetpointCalls(calls) = Len(calibration_configuration.setpoints))
    /\ (calibration_configuration.loop \/ <>(pc = "done" \/ StoppedWaiting))

\* a two-row sequence without loop was run to its end, and rows were written
\* for the first and for the second setpoint
C20_Witness ==
    /\ outcome.ended = "returned"
    /\ ~calibration_configuration.loop
    /\ Len(calibration_configuration.setpoints) = 2
    /\ SetSetpointCalls(calls) = 2
    /\ csv # <<>>
    /\ csv[1].setpoint = 1
    /\ csv[Len(csv)].setpoint = 2

\* with loop set, the second pass has begun with the first row
C20_WitnessLoop ==
    /\ calibration_configuration.loop
    /\ sequence_iteration_count = 1
    /\ i = 1
    /\ pc = "loop"
    /\ SetSetpointCalls(calls) = Len(calibration_configuration.setpoints) + 1

----------------------------------------------------------------------------
(* Properties of the hold and of the pass counter of run() *)

\* the rows written in the hold of row n of the file in pass number pass
HoldRows(pass, n) ==
    { k \in 1..Len(csv) : /\ csv[k].iteration = pass
                          /\ csv[k].setpoint = n
                          /\ csv[k].equilibration_state = "WAIT_FOR_SETPOINT_TIMEOUT" }

LeavesHold ==
    /\ pc = "loop"
    /\ CALIBRATION_STATE = "WAIT_FOR_SETPOINT_TIMEOUT"
    /\ pc' \in {"set_setpoint", "finally"}

\* C21: when run() leaves the hold of a setpoint, the rows it wrote in that hold
\* number floor(hold time / collection_interval).
C21_HoldRowsPerInterval ==
    [][ LeavesHold =>
            Cardinality(HoldRows(sequence_iteration_count, i)) =
                calibration_configuration.setpoint_wait_time
                    \div calibration_configuration.collection_interval ]_vars

\* the hold of the last row of the file is left: the sequence is completed
CompletesSequence ==
    /\ LeavesHold
    /\ i = Len(calibration_configuration.setpoints)

\* C27: the pass counter is 0 until a sequence is completed, changes only when
\* the hold of the last row is left and then by exactly one, and every row
\* written carries the value the counter has when the row is collected; so the
\* first row carries 0 and the values in the file never decrease.
C27_PassCounterInEveryRow ==
    /\ [][ IF CompletesSequence
              THEN sequence_iteration_count' = sequence_iteration_count + 1
              ELSE sequence_iteration_count' = sequence_iteration_count ]_vars
    /\ [][ Len(csv') > Len(csv) =>
               /\ csv' = Append(csv, csv'[Len(csv')])
               /\ csv'[Len(csv')].iteration = sequence_iteration_count ]_vars
    /\ [](/\ csv # <<>> => csv[1].iteration = 0
          /\ \A k \in 1..Len(csv) :
                /\ csv[k].iteration <= sequence_iteration_count
                /\ k > 1 => csv[k].iteration >= csv[k - 1].iteration
          /\ sequence_iteration_count * Len(calibration_configuration.setpoints)
                 <= SetSetpointCalls(calls))
    /\ (pc = "initialize" /\ sequence_iteration_count = 0)

\* with loop set, a row of the second pass has been written after rows of the
\* first
C27_Witness ==
    /\ calibration_configuration.loop
    /\ sequence_iteration_count = 1
    /\ csv # <<>>
    /\ csv[1].iteration = 0
    /\ csv[Len(csv)].iteration = 1
    /\ pc = "loop"

----------------------------------------------------------------------------
(* Properties of the equilibration waits *)

CollectsRow == Len(sensor_data_log') > Len(sensor_data_log)

\* C22: the row a wait for dissolved-oxygen equilibration writes carries the
\* status "waiting for do", the row a wait for temperature equilibration writes
\* carries "waiting for temperature".
C22_RowsCarryTheStatusOfTheirWait ==
    [][ CollectsRow =>
            csv_file'[Len(csv_file')].equilibration_status =
                IF w_args.caller = "wait_for_do_equilibration"
                   THEN "waiting for do"
                   ELSE "waiting for temperature" ]_vars

\* C23: when a poll of an equilibration wait has collected its row and evaluated
\* it, a hardware status check has been run.
C23_StatusCheckedOnEveryTick ==
    Checked => st_outcome.ended # "running"

\* the equilibration check on the first n samples of the log
EquilibratedAfter(n) ==
    _is_field_equilibrated(SubSeq(sensor_data_log, 1, n), w_args.max_variation,
                           w_args.min_stable_time)

\* C24: within a wait the log only grows by appending; every new sample is
\* followed by the equilibration check on the whole log, before another sample
\* is taken; the wait returns exactly when that check is true, hence at the
\* first sample for which it is true, and goes on to sleep and sample when it is
\* false.
C24_ReturnsAtFirstStableSample ==
    /\ [][ w_pc # "returned" => IsPrefix(sensor_data_log, sensor_data_log') ]_vars
    /\ [][ CollectsRow => /\ Len(sensor_data_log') = Len(sensor_data_log) + 1
                          /\ w_pc' = "check" ]_vars
    /\ [][ w_pc = "check" =>
               /\ sensor_data_log' = sensor_data_log
               /\ w_pc' = IF EquilibratedAfter(Len(sensor_data_log))
                             THEN "returned" ELSE "sleep" ]_vars
    /\ [][ w_pc = "sleep" => w_pc' = "collect" /\ sensor_data_log' = sensor_data_log ]_vars
    /\ [](w_pc = "returned" =>
              /\ EquilibratedAfter(Len(sensor_data_log))
              /\ \A n \in 1..(Len(sensor_data_log) - 1) : ~EquilibratedAfter(n))

\* a wait returned at its third sample, after two samples that were not stable
C24_Witness ==
    /\ w_pc = "returned"
    /\ Len(sensor_data_log) = 3
    /\ sensor_data_log[2].timestamp - sensor_data_log[1].timestamp >= w_args.min_stable_time

\* C29: a wait begins with an empty log, its log holds only the rows written
\* since it began (the last rows of the csv file), and it returns only when
\* these span at least min_stable_time.
C29_OnlySamplesOfThisWaitCount ==
    /\ [][ w_pc = "returned" /\ w_pc' # "returned" => sensor_data_log' = <<>> ]_vars
    /\ [](/\ sensor_data_log # <<>> => Len(sensor_data_log) < Len(csv_file)
          /\ \A n \in 1..Len(sensor_data_log) :
                 RowLine(sensor_data_log[n]) =
                     csv_file[Len(csv_file) - Len(sensor_data_log) + n])
    /\ [](w_pc = "returned" =>
              sensor_data_log[Len(sensor_data_log)].timestamp
                  - sensor_data_log[1].timestamp >= w_args.min_stable_time)

\* the second wait returned; the csv file holds rows of the first wait that are
\* not in its log
C29_Witness ==
    /\ w_pc = "returned"
    /\ w_args.caller = "wait_for_do_equilibration"
    /\ Len(sensor_data_log) = 2
    /\ Len(csv_file) = 5

----------------------------------------------------------------------------
(* Properties of the SerialPackets that exist *)

WellFormed(packet) ==
    /\ packet.prefix = 202
    /\ packet.device_address_msb = 0
    /\ packet.device_address_lsb = 1
    /\ packet.data_bytes_count = Len(packet.data_bytes)
    /\ packet.checksum =
           255 - ((packet.device_address_msb + packet.device_address_lsb
                   + packet.command + packet.data_bytes_count
                   + Sum(packet.data_bytes)) % 256)

\* the fields from_bytes reads from a byte string of five bytes or more
FieldsOf(bytes) ==
    [ prefix |-> bytes[1], device_address_msb |-> bytes[2],
      device_address_lsb |-> bytes[3], command |-> bytes[4],
      data_bytes_count |-> bytes[5],
      data_bytes |-> [ n \in 1..(IF Len(bytes) > 6 THEN Len(bytes) - 6 ELSE 0) |->
                           bytes[5 + n] ],
      checksum |-> bytes[Len(bytes)] ]

\* C25: every SerialPacket from_bytes or from_command has returned has the fixed
\* prefix and address bytes, a count field equal to the number of its data
\* bytes, and the checksum of its address, command, count and data bytes;
\* from_bytes fails on bytes too short to hold the fields and on bytes whose
\* fields break one of these, and returns the fields it read otherwise.
C25_OnlyValidPacketsExist ==
    /\ response_packet # NoPacket => WellFormed(response_packet)
    /\ b_pc \in {"to_bytes", "reparse", "done"} =>
           IF b_outcome.ended = "raised"
              THEN /\ response_packet = NoPacket
                   /\ b_outcome.exception \in {"ValueError", "IndexError"}
                   /\ ~(Len(response_bytes) >= 5 /\ WellFormed(FieldsOf(response_bytes)))
              ELSE /\ response_packet # NoPacket
                   /\ response_bytes # <<>> =>
                          /\ Len(response_bytes) >= 5
                          /\ response_packet = FieldsOf(response_bytes)

\* from_bytes has returned a packet with three data bytes
C25_Witness ==
    /\ b_pc = "done"
    /\ response_bytes # <<>>
    /\ response_packet # NoPacket
    /\ Len(response_packet.data_bytes) = 3

\* the polling thread takes a setpoint from the queue and enters
\* collect_data_to_csv
StartsCollection == p_pc = "get" /\ p_pc' = "acquire"

\* C30: once end_data_collection_signal is set, the polling thread starts no
\* new collection.
C30_NoCollectionStartedAfterSignal ==
    [][ end_data_collection_signal => ~StartsCollection ]_vars

\* the first n commands of this attempt were each answered with the expected
\* response
Acknowledged(n) ==
    /\ Len(received) >= n
    /\ \A j \in 1..n :
          received[j] = Reply(commands_and_expected_responses(m_args)[j].expected)

\* an attempt of the wrapped function begins after an earlier one has failed
Retries == tries' = tries + 1 /\ tries >= 1

\* C28: a retried attempt of start_constant_flow_mix begins with nothing sent,
\* the commands of an attempt are sent in the order of the sequence beginning
\* with the mode command, and MXRS 1 is in an attempt only as its fourth
\* command, after MXRM, MXMF and MXRFF of the same attempt were each answered
\* with their expected response.
C28_StartOnlyAfterWholeSequenceOfTheAttempt ==
    /\ [][ (StartsMix /\ Retries) =>
               /\ raised.kind = "UnexpectedMixerResponse"
               /\ sent' = <<>>
               /\ received' = <<>> ]_vars
    /\ [][ (StartsMix /\ Len(sent') > Len(sent)) =>
               /\ Len(sent') = Len(sent) + 1
               /\ sent'[Len(sent')].mnemonic = StartSequence[Len(sent')]
               /\ Acknowledged(Len(sent)) ]_vars
    /\ [](StartsMix =>
             \A k \in 1..Len(sent) :
                 sent[k] = Command("MXRS", <<clear_alarms_and_start_mixing>>) =>
                     /\ k = 4
                     /\ Mnemonics(SubSeq(sent, 1, 3)) = <<"MXRM", "MXMF", "MXRFF">>
                     /\ Acknowledged(3))

\* the third attempt, begun after two attempts failed on an unexpected response,
\* has sent the whole sequence and MXRS 1 was answered
C28_Witness ==
    /\ StartsMix
    /\ tries = 3
    /\ Len(sent) = 4
    /\ sent[4] = Command("MXRS", <<clear_alarms_and_start_mixing>>)
    /\ Acknowledged(4)
    /\ m_outcome.ended = "returned"

\* the fraction num / den times one billion, rounded to the nearest integer
RoundedPpb(num, den) ==
    num * (_ONE_BILLION \div den) + (num * (_ONE_BILLION % den)) \div den
        + (IF 2 * ((num * (_ONE_BILLION % den)) % den) >= den THEN 1 ELSE 0)

\* C26: the O2-source value of every mix-fraction command sent is the fraction
\* target / source times one billion, rounded to the nearest integer.
C26_PpbIsTheNearestInteger ==
    \A k \in 1..Len(sent) :
        sent[k].mnemonic = "MXMF" =>
            sent[k].values[2] = RoundedPpb(m_args.setpoint_o2_fraction,
                                           m_args.o2_source_gas_o2_fraction)


============================================================================
